---------------------------- MODULE Spec2Model ----------------------------
(***************************************************************************)
(* Semantic analysis of a 1C module: the scoped symbol table               *)
(* (semantic/symbol_table.py), the builtin registry                        *)
(* (semantic/builtins/registry.py), the declaration collector and the      *)
(* undefined-reference checker (semantic/checkers/undefined_variable.py)   *)
(* and the analyzer that runs them (semantic/semantic_analyzer.py).        *)
(*                                                                         *)
(* The analyzer's recursion over the AST is modelled with an explicit      *)
(* stack of pending visits (todo): one step per visit_* method, children   *)
(* pushed in the order the method visits them.                             *)
(***************************************************************************)
EXTENDS Integers, Sequences, FiniteSets, TLC

VARIABLES
    ast,             \* the module the client has parsed
    root,            \* the node passed to the current / last analyze()
    builtins,        \* SemanticAnalyzer._builtins (a registry, or None)
    errors,          \* SemanticAnalyzer.errors
    symbol_table,    \* SemanticAnalyzer.symbol_table (the table the checker works on)
    collector_table, \* VariableCollector.symbol_table while pass 1 runs
    checker_errors,  \* UndefinedVariableChecker.errors
    todo,            \* pending visits of the running pass (the call stack)
    pc,              \* position inside analyze(); "idle" between calls, when
                     \* errors is the list the last call returned
    lexer,           \* the Lexer object (source, pos, line, column, tokens)
    parser,          \* the Parser object (tokens, current, current_annotation)
    result           \* what the last call of tokenize(),
                     \* tokenize_without_whitespace() or parse() returned,
                     \* or the exception it raised

vars == <<ast, root, builtins, errors, symbol_table, collector_table,
          checker_errors, todo, pc, lexer, parser, result>>

-----------------------------------------------------------------------------
(* Bounds of the model *)

\* deepest nesting of control blocks around a declaration in a generated body
MaxNest == 2
\* most arguments of a generated call or constructor
MaxArgs == 2
\* deepest stack of scopes a direct client of the table builds
MaxScopes == 3

-----------------------------------------------------------------------------
(* Names.  str.lower() on the identifiers the model uses. *)

Lower(n) ==
    CASE n = "X" -> "x"
      [] n = "Y" -> "y"
      [] n = "G" -> "g"
      [] n = "F" -> "f"
      [] n = "H" -> "h"
      [] n = "P" -> "p"
      [] n = "T" -> "t"
      [] n = "U" -> "u"
      [] n = "K" -> "k"
      [] n = "Msg" -> "msg"
      [] n = "A" -> "a"
      [] n = "I" -> "i"
      [] n = "L" -> "l"
      [] n = "N" -> "n"
      [] n = "E" -> "e"
      [] OTHER -> n

\* Python's None, for an optional node or object
None == [type |-> "None"]

\* the value of root before the first analyze() call
NotCalled == [type |-> "NotCalled"]

-----------------------------------------------------------------------------
(* AST nodes (syntax/parser/ast_nodes.py).  l, c: line and column. *)

IdentifierNode(name, l, c) ==
    [type |-> "IdentifierNode", name |-> name, line |-> l, column |-> c]

LiteralNode(l, c) ==
    [type |-> "LiteralNode", value |-> 5, literal_type |-> "number",
     line |-> l, column |-> c]

BinaryOpNode(left, right, l, c) ==
    [type |-> "BinaryOpNode", left |-> left, operator |-> "+", right |-> right,
     line |-> l, column |-> c]

UnaryOpNode(operand, l, c) ==
    [type |-> "UnaryOpNode", operator |-> "-", operand |-> operand,
     line |-> l, column |-> c]

TernaryNode(condition, true_value, false_value, l, c) ==
    [type |-> "TernaryNode", condition |-> condition, true_value |-> true_value,
     false_value |-> false_value, line |-> l, column |-> c]

CallNode(function, arguments, l, c) ==
    [type |-> "CallNode", function |-> function, arguments |-> arguments,
     line |-> l, column |-> c]

MemberAccessNode(object, member, l, c) ==
    [type |-> "MemberAccessNode", object |-> object, member |-> member,
     line |-> l, column |-> c]

IndexAccessNode(object, index, l, c) ==
    [type |-> "IndexAccessNode", object |-> object, index |-> index,
     line |-> l, column |-> c]

NewNode(type_name, arguments, l, c) ==
    [type |-> "NewNode", type_name |-> type_name, arguments |-> arguments,
     line |-> l, column |-> c]

VarDeclarationNode(names, l, c) ==
    [type |-> "VarDeclarationNode", names |-> names, line |-> l, column |-> c]

ParameterNode(name, l, c) ==
    [type |-> "ParameterNode", name |-> name, default_value |-> None,
     by_val |-> FALSE, line |-> l, column |-> c]

AssignmentNode(target, value, l, c) ==
    [type |-> "AssignmentNode", target |-> target, value |-> value,
     line |-> l, column |-> c]

\* elif_branches: a sequence of <<condition, body>>; else_body: a sequence,
\* empty for Python's None (the code tests `if node.else_body:` only)
IfNode(condition, then_body, elif_branches, else_body, l, c) ==
    [type |-> "IfNode", condition |-> condition, then_body |-> then_body,
     elif_branches |-> elif_branches, else_body |-> else_body,
     line |-> l, column |-> c]

WhileNode(condition, body, l, c) ==
    [type |-> "WhileNode", condition |-> condition, body |-> body,
     line |-> l, column |-> c]

ForNode(variable, start, end, body, l, c) ==
    [type |-> "ForNode", variable |-> variable, start |-> start, end |-> end,
     body |-> body, line |-> l, column |-> c]

ForEachNode(variable, collection, body, l, c) ==
    [type |-> "ForEachNode", variable |-> variable, collection |-> collection,
     body |-> body, line |-> l, column |-> c]

TryNode(try_body, except_body, l, c) ==
    [type |-> "TryNode", try_body |-> try_body, except_body |-> except_body,
     line |-> l, column |-> c]

ReturnNode(value, l, c) ==
    [type |-> "ReturnNode", value |-> value, line |-> l, column |-> c]

BreakNode(l, c) == [type |-> "BreakNode", line |-> l, column |-> c]

ContinueNode(l, c) == [type |-> "ContinueNode", line |-> l, column |-> c]

RaiseNode(expression, l, c) ==
    [type |-> "RaiseNode", expression |-> expression, line |-> l, column |-> c]

AwaitNode(expression, l, c) ==
    [type |-> "AwaitNode", expression |-> expression, line |-> l, column |-> c]

ExpressionStatementNode(expression, l, c) ==
    [type |-> "ExpressionStatementNode", expression |-> expression,
     line |-> l, column |-> c]

FunctionNode(name, parameters, body, l, c) ==
    [type |-> "FunctionNode", name |-> name, parameters |-> parameters,
     body |-> body, line |-> l, column |-> c]

ProcedureNode(name, parameters, body, l, c) ==
    [type |-> "ProcedureNode", name |-> name, parameters |-> parameters,
     body |-> body, line |-> l, column |-> c]

ModuleNode(var_declarations, functions, procedures, statements) ==
    [type |-> "ModuleNode", var_declarations |-> var_declarations,
     functions |-> functions, procedures |-> procedures,
     statements |-> statements, line |-> 0, column |-> 0]

\* hasattr(stmt, 'body'): the node classes that declare a field named body
HasAttrBody(node) ==
    node.type \in {"WhileNode", "ForNode", "ForEachNode", "FunctionNode",
                   "ProcedureNode"}

-----------------------------------------------------------------------------
(* Symbols and the symbol table (semantic/symbol_table.py) *)

Symbol(name, kind, l, c, scope_level) ==
    [name |-> name, kind |-> kind, line |-> l, column |-> c,
     scope_level |-> scope_level, is_builtin |-> FALSE]

\* the symbol of a builtin as it would be without is_builtin=True
BuiltinSymbolUnmarked(name, kind) == Symbol(name, kind, 0, 0, 0)

BuiltinSymbol(name, kind) ==
    [name |-> name, kind |-> kind, line |-> 0, column |-> 0,
     scope_level |-> 0, is_builtin |-> TRUE]

\* d[key] = value on a dict (a function from its keys)
DictSet(d, key, value) ==
    [k \in DOMAIN d \cup {key} |-> IF k = key THEN value ELSE d[k]]

EmptyDict == [k \in {} |-> None]

get_current_scope_level(t) == t.current_scope_level

enter_scope(t) ==
    [t EXCEPT !.scopes = Append(@, EmptyDict),
              !.current_scope_level = @ + 1]

\* exit_scope as it would be without the test `len(self.scopes) > 1`
ExitScopeUnguarded(t) ==
    [t EXCEPT !.scopes = SubSeq(@, 1, Len(@) - 1),
              !.current_scope_level = @ - 1]

exit_scope(t) ==
    IF Len(t.scopes) > 1
    THEN [t EXCEPT !.scopes = SubSeq(@, 1, Len(@) - 1),
                   !.current_scope_level = @ - 1]
    ELSE t

\* define as it would be if the key were the name as given
DefineUnderGivenName(t, name, symbol) ==
    [t EXCEPT !.scopes[Len(t.scopes)] = DictSet(@, name, symbol)]

define(t, name, symbol) ==
    [t EXCEPT !.scopes[Len(t.scopes)] = DictSet(@, Lower(name), symbol)]

RECURSIVE LookupFrom(_, _, _)
\* the loop of lookup(): scopes i, i-1, .., 1, the first that holds the key
LookupFrom(t, key, i) ==
    IF i = 0 THEN None
    ELSE IF key \in DOMAIN t.scopes[i] THEN t.scopes[i][key]
    ELSE LookupFrom(t, key, i - 1)

lookup(t, name) == LookupFrom(t, Lower(name), Len(t.scopes))

lookup_local(t, name) ==
    LET top == t.scopes[Len(t.scopes)]
    IN  IF Lower(name) \in DOMAIN top THEN top[Lower(name)] ELSE None

is_defined(t, name) == lookup(t, name) # None

-----------------------------------------------------------------------------
(* The builtin registry (semantic/builtins/registry.py): two dicts, key -> info *)

BuiltinInfo(name_ru, name_en, category) ==
    [name_ru |-> name_ru, name_en |-> name_en, category |-> category]

get_all_functions(reg) == DOMAIN reg.functions

get_all_types(reg) == DOMAIN reg.types

get_function_info(reg, name) ==
    IF Lower(name) \in DOMAIN reg.functions THEN reg.functions[Lower(name)]
    ELSE None

get_type_info(reg, name) ==
    IF Lower(name) \in DOMAIN reg.types THEN reg.types[Lower(name)] ELSE None

is_builtin_type(reg, name) == Lower(name) \in DOMAIN reg.types

is_builtin_function(reg, name) == Lower(name) \in DOMAIN reg.functions

\* `info.name_ru or key`: the empty string is falsy
NameOr(name_ru, key) == IF name_ru = "" THEN key ELSE name_ru

\* _populate_builtins as it would be without the loop over the types
PopulateFunctionsOnly(t, reg) ==
    LET fkeys == {k \in get_all_functions(reg) : get_function_info(reg, k) # None}
        scope0 == [k \in DOMAIN t.scopes[1] \cup fkeys |->
                     IF k \in fkeys
                     THEN BuiltinSymbol(NameOr(get_function_info(reg, k).name_ru, k),
                                        "builtin_function")
                     ELSE t.scopes[1][k]]
    IN  [t EXCEPT !.scopes[1] = scope0,
                  !.builtins_count = @ + Cardinality(fkeys)]

\* SymbolTable._populate_builtins: scope 0 after both loops.  Each loop stores
\* under the registry's own key (not lowercased again) the keys whose info is
\* found; the types loop runs second and overwrites a function of the same key.
_populate_builtins(t, reg) ==
    LET fkeys == {k \in get_all_functions(reg) : get_function_info(reg, k) # None}
        tkeys == {k \in get_all_types(reg) : get_type_info(reg, k) # None}
        scope0 == [k \in DOMAIN t.scopes[1] \cup fkeys \cup tkeys |->
                     IF k \in tkeys
                     THEN BuiltinSymbol(NameOr(get_type_info(reg, k).name_ru, k),
                                        "builtin_type")
                     ELSE IF k \in fkeys
                     THEN BuiltinSymbol(NameOr(get_function_info(reg, k).name_ru, k),
                                        "builtin_function")
                     ELSE t.scopes[1][k]]
    IN  [t EXCEPT !.scopes[1] = scope0,
                  !.builtins_count = @ + Cardinality(fkeys) + Cardinality(tkeys)]

\* SymbolTable.__init__
SymbolTable(reg) ==
    LET t0 == [scopes |-> <<EmptyDict>>, current_scope_level |-> 0,
               builtins_count |-> 0]
    IN  IF reg # None THEN _populate_builtins(t0, reg) ELSE t0

get_builtins_count(t) == t.builtins_count

-----------------------------------------------------------------------------
(* Diagnostics (semantic/errors.py).  The message is its fixed text and the   *)
(* name the f-string puts into it.                                            *)

SemanticError(text, name, l, c, error_type) ==
    [message |-> <<text, name>>, line |-> l, column |-> c,
     error_type |-> error_type]

\* `name in error.message`, for a name of the module under analysis
Mentions(err, name) == err.message[2] = name

-----------------------------------------------------------------------------
(* Pass 1: VariableCollector (checkers/undefined_variable.py, 28-286) *)

RECURSIVE DefineAll(_, _, _, _, _)
\* define each name of `names`, in order, with the given kind and position
DefineAll(t, names, kind, l, c) ==
    IF names = <<>> THEN t
    ELSE DefineAll(define(t, Head(names),
                          Symbol(Head(names), kind, l, c,
                                 get_current_scope_level(t))),
                   Tail(names), kind, l, c)

Collector_visit_VarDeclarationNode(t, node) ==
    DefineAll(t, node.names, "variable", node.line, node.column)

RECURSIVE DefineParameters(_, _)
\* the loop `for param in node.parameters: define(...)`
DefineParameters(t, params) ==
    IF params = <<>> THEN t
    ELSE DefineParameters(
             define(t, Head(params).name,
                    Symbol(Head(params).name, "parameter", Head(params).line,
                           Head(params).column, get_current_scope_level(t))),
             Tail(params))

RECURSIVE CollectStatements(_, _), CollectStatement(_, _),
          Collector_visit_ForNode(_, _), Collector_visit_ForEachNode(_, _),
          _collect_vars_from_body(_, _), CollectElifBranches(_, _)

\* the loop every collecting method runs over a list of statements
CollectStatements(t, body) ==
    IF body = <<>> THEN t
    ELSE CollectStatements(CollectStatement(t, Head(body)), Tail(body))

\* the loop's body: isinstance VarDeclarationNode / (ForNode, ForEachNode) /
\* hasattr(stmt, 'body')
CollectStatement(t, stmt) ==
    IF stmt.type = "VarDeclarationNode"
    THEN Collector_visit_VarDeclarationNode(t, stmt)
    ELSE IF stmt.type = "ForNode" THEN Collector_visit_ForNode(t, stmt)
    ELSE IF stmt.type = "ForEachNode" THEN Collector_visit_ForEachNode(t, stmt)
    ELSE IF HasAttrBody(stmt) THEN _collect_vars_from_body(t, stmt)
    ELSE t

Collector_visit_ForNode(t, node) ==
    CollectStatements(
        define(t, node.variable,
               Symbol(node.variable, "loop_variable", node.line, node.column,
                      get_current_scope_level(t))),
        node.body)

Collector_visit_ForEachNode(t, node) ==
    CollectStatements(
        define(t, node.variable,
               Symbol(node.variable, "loop_variable", node.line, node.column,
                      get_current_scope_level(t))),
        node.body)

CollectElifBranches(t, branches) ==
    IF branches = <<>> THEN t
    ELSE CollectElifBranches(CollectStatements(t, Head(branches)[2]),
                             Tail(branches))

_collect_vars_from_body(t, node) ==
    IF node.type = "IfNode"
    THEN LET t1 == CollectStatements(t, node.then_body)
             t2 == CollectElifBranches(t1, node.elif_branches)
         IN  IF node.else_body # <<>>
             THEN CollectStatements(t2, node.else_body) ELSE t2
    ELSE IF node.type = "WhileNode" THEN CollectStatements(t, node.body)
    ELSE IF node.type = "TryNode"
    THEN CollectStatements(CollectStatements(t, node.try_body),
                           node.except_body)
    ELSE t

\* visit_FunctionNode up to (not including) exit_scope: the function's scope
\* as pass 1 fills it
CollectorFunctionScope(t, node) ==
    CollectStatements(DefineParameters(enter_scope(t), node.parameters),
                      node.body)

Collector_visit_FunctionNode(t, node) ==
    exit_scope(CollectorFunctionScope(t, node))

\* Collector_visit_ProcedureNode as it would be without its exit_scope
CollectProcedureWithoutExit(t, node) ==
    CollectStatements(DefineParameters(enter_scope(t), node.parameters),
                      node.body)

Collector_visit_ProcedureNode(t, node) ==
    exit_scope(CollectStatements(
                   DefineParameters(enter_scope(t), node.parameters),
                   node.body))

RECURSIVE CollectVarDeclarations(_, _), DefineRoutines(_, _, _)
\* `for var_decl in node.var_declarations: self.visit(var_decl)`
CollectVarDeclarations(t, decls) ==
    IF decls = <<>> THEN t
    ELSE CollectVarDeclarations(
             Collector_visit_VarDeclarationNode(t, Head(decls)), Tail(decls))

\* the first-pass loops that define every function / procedure name
DefineRoutines(t, routines, kind) ==
    IF routines = <<>> THEN t
    ELSE DefineRoutines(
             define(t, Head(routines).name,
                    Symbol(Head(routines).name, kind, Head(routines).line,
                           Head(routines).column, get_current_scope_level(t))),
             Tail(routines), kind)

\* CollectorModuleDeclarations as it would be if a routine's name were only
\* defined once the routines ahead of it have been declared: the procedure
\* names are left out
DeclareFunctionsOnly(t, node) ==
    DefineRoutines(CollectVarDeclarations(t, node.var_declarations),
                   node.functions, "function")

\* visit_ModuleNode, lines 52-79: what is defined before any body is visited
CollectorModuleDeclarations(t, node) ==
    DefineRoutines(
        DefineRoutines(CollectVarDeclarations(t, node.var_declarations),
                       node.functions, "function"),
        node.procedures, "procedure")

-----------------------------------------------------------------------------
(* Pass 2: UndefinedVariableChecker (checkers/undefined_variable.py, 289-630) *)

RECURSIVE _recollect_local_vars(_, _), RecollectElifBranches(_, _)

RecollectElifBranches(t, branches) ==
    IF branches = <<>> THEN t
    ELSE RecollectElifBranches(_recollect_local_vars(t, Head(branches)[2]),
                               Tail(branches))

\* _recollect_local_vars as it would be with block-local declarations: the
\* bodies of If and Try statements are not replayed
RecollectOutsideBranches(t, body) ==
    IF body = <<>> THEN t
    ELSE LET stmt == Head(body)
             t1 == IF stmt.type = "VarDeclarationNode"
                   THEN DefineAll(t, stmt.names, "variable", stmt.line,
                                  stmt.column)
                   ELSE IF stmt.type \in {"ForNode", "ForEachNode"}
                   THEN _recollect_local_vars(
                            define(t, stmt.variable,
                                   Symbol(stmt.variable, "loop_variable",
                                          stmt.line, stmt.column,
                                          get_current_scope_level(t))),
                            stmt.body)
                   ELSE IF stmt.type = "WhileNode"
                   THEN _recollect_local_vars(t, stmt.body)
                   ELSE t
         IN  _recollect_local_vars(t1, Tail(body))

_recollect_local_vars(t, body) ==
    IF body = <<>> THEN t
    ELSE LET stmt == Head(body)
             t1 == IF stmt.type = "VarDeclarationNode"
                   THEN DefineAll(t, stmt.names, "variable", stmt.line,
                                  stmt.column)
                   ELSE IF stmt.type \in {"ForNode", "ForEachNode"}
                   THEN _recollect_local_vars(
                            define(t, stmt.variable,
                                   Symbol(stmt.variable, "loop_variable",
                                          stmt.line, stmt.column,
                                          get_current_scope_level(t))),
                            stmt.body)
                   ELSE IF stmt.type = "IfNode"
                   THEN LET a == _recollect_local_vars(t, stmt.then_body)
                            b == RecollectElifBranches(a, stmt.elif_branches)
                        IN  IF stmt.else_body # <<>>
                            THEN _recollect_local_vars(b, stmt.else_body)
                            ELSE b
                   ELSE IF stmt.type = "WhileNode"
                   THEN _recollect_local_vars(t, stmt.body)
                   ELSE IF stmt.type = "TryNode"
                   THEN _recollect_local_vars(
                            _recollect_local_vars(t, stmt.try_body),
                            stmt.except_body)
                   ELSE t
         IN  _recollect_local_vars(t1, Tail(body))

\* CheckerEnterRoutine as it would be if the locals were left to be defined
\* where the checker meets their declaration
EnterWithParametersOnly(t, node) ==
    DefineParameters(enter_scope(t), node.parameters)

\* visit_FunctionNode / visit_ProcedureNode, up to the loop over the body:
\* enter_scope, the parameters, the replay of the locals
CheckerEnterRoutine(t, node) ==
    _recollect_local_vars(DefineParameters(enter_scope(t), node.parameters),
                          node.body)

\* pending visits
Visit(node) == [op |-> "visit", node |-> node]

Visits(nodes) == [i \in 1..Len(nodes) |-> Visit(nodes[i])]

\* `if node.x: self.visit(node.x)` for an optional child
VisitIf(node) == IF node # None THEN <<Visit(node)>> ELSE <<>>

RECURSIVE VisitElifBranches(_)
\* the loop over elif_branches of visit_IfNode
VisitElifBranches(branches) ==
    IF branches = <<>> THEN <<>>
    ELSE VisitIf(Head(branches)[1]) \o Visits(Head(branches)[2])
         \o VisitElifBranches(Tail(branches))

\* ASTVisitor.generic_visit: the child nodes of a node with no visit_ method,
\* in the order of its fields
GenericChildren(node) ==
    CASE node.type = "RaiseNode" -> VisitIf(node.expression)
      [] node.type = "TernaryNode" ->
             VisitIf(node.condition) \o VisitIf(node.true_value)
             \o VisitIf(node.false_value)
      [] node.type = "ParameterNode" -> VisitIf(node.default_value)
      [] OTHER -> <<>>

\* the node classes UndefinedVariableChecker has no visit_ method for
IsGeneric(node) == node.type \in {"RaiseNode", "TernaryNode", "ParameterNode"}

-----------------------------------------------------------------------------
(* SemanticAnalyzer.analyze (semantic/semantic_analyzer.py) *)

Task == Head(todo)

Rest == Tail(todo)

\* the analyzer is inside pass `p` and the next pending visit is of a `type` node
Visiting(p, type) ==
    /\ pc = p
    /\ todo # <<>>
    /\ Task.op = "visit"
    /\ Task.node.type = type

\* analyze_invalid as it would be without the reset of self.errors
AnalyzeInvalidKeepingErrors(r) ==
    /\ pc = "idle"
    /\ r.type # "ModuleNode"
    /\ root' = r
    /\ errors' = Append(errors,
                        SemanticError("Expected ModuleNode as root of AST", "",
                                      0, 0, "invalid_ast"))
    /\ UNCHANGED <<lexer, parser, result, ast, builtins, symbol_table, collector_table,
                   checker_errors, todo, pc>>

\* analyze(), lines 62-74: the root is not a ModuleNode
analyze_invalid(r) ==
    /\ pc = "idle"
    /\ r.type # "ModuleNode"
    /\ root' = r
    /\ errors' = <<SemanticError("Expected ModuleNode as root of AST", "",
                                 0, 0, "invalid_ast")>>
    /\ UNCHANGED <<lexer, parser, result, ast, builtins, symbol_table, collector_table,
                   checker_errors, todo, pc>>

\* analyze_module as it would be if self.errors were not reset
AnalyzeModuleKeepingErrors(r) ==
    /\ pc = "idle"
    /\ r.type = "ModuleNode"
    /\ root' = r
    /\ errors' = errors
    /\ collector_table' = SymbolTable(builtins)
    /\ todo' = <<Visit(r)>>
    /\ pc' = "collect"
    /\ UNCHANGED <<lexer, parser, result, ast, builtins, symbol_table, checker_errors>>

\* analyze(), lines 62-77 and 95-96: a ModuleNode; the collector is created
\* and about to visit the root
analyze_module(r) ==
    /\ pc = "idle"
    /\ r.type = "ModuleNode"
    /\ root' = r
    /\ errors' = <<>>
    /\ collector_table' = SymbolTable(builtins)
    /\ todo' = <<Visit(r)>>
    /\ pc' = "collect"
    /\ UNCHANGED <<lexer, parser, result, ast, builtins, symbol_table, checker_errors>>

\* VariableCollector.visit_ModuleNode
Collector_visit_ModuleNode ==
    /\ Visiting("collect", "ModuleNode")
    /\ collector_table' = CollectorModuleDeclarations(collector_table, Task.node)
    /\ todo' = Visits(Task.node.functions) \o Visits(Task.node.procedures)
               \o Rest
    /\ UNCHANGED <<lexer, parser, result, ast, root, builtins, errors, symbol_table, checker_errors,
                   pc>>

\* VariableCollector.visit_FunctionNode, called from visit_ModuleNode line 83
CollectFunction ==
    /\ Visiting("collect", "FunctionNode")
    /\ collector_table' = Collector_visit_FunctionNode(collector_table, Task.node)
    /\ todo' = Rest
    /\ UNCHANGED <<lexer, parser, result, ast, root, builtins, errors, symbol_table, checker_errors,
                   pc>>

\* VariableCollector.visit_ProcedureNode, called from visit_ModuleNode line 86
CollectProcedure ==
    /\ Visiting("collect", "ProcedureNode")
    /\ collector_table' = Collector_visit_ProcedureNode(collector_table, Task.node)
    /\ todo' = Rest
    /\ UNCHANGED <<lexer, parser, result, ast, root, builtins, errors, symbol_table, checker_errors,
                   pc>>

\* _collect_variables line 97 and _check_undefined_variables lines 106-107:
\* the collector's table becomes the analyzer's, a checker is created on it
\* and about to visit the root
_check_undefined_variables ==
    /\ pc = "collect"
    /\ todo = <<>>
    /\ symbol_table' = collector_table
    /\ collector_table' = None
    /\ checker_errors' = <<>>
    /\ todo' = <<Visit(root)>>
    /\ pc' = "check"
    /\ UNCHANGED <<lexer, parser, result, ast, root, builtins, errors>>

\* _check_undefined_variables line 108 and analyze line 86: the analyzer's
\* side of the return
ExtendAndReturn ==
    /\ pc = "check"
    /\ todo = <<>>
    /\ errors' = errors \o checker_errors
    /\ checker_errors' = <<>>
    /\ pc' = "idle"
    /\ UNCHANGED <<lexer, parser, ast, root, builtins, symbol_table, collector_table, todo>>

\* analyze() returning to a caller that drops the list
analyze_return ==
    /\ ExtendAndReturn
    /\ UNCHANGED result

-----------------------------------------------------------------------------
(* The checker's visit methods, one step each *)

\* what one visit leaves unchanged besides the table, the errors and the stack
CheckerFrame ==
    UNCHANGED <<lexer, parser, result, ast, root, builtins, errors, collector_table, pc>>

\* a visit that only pushes child visits
PushOnly(children) ==
    /\ todo' = children \o Rest
    /\ UNCHANGED <<symbol_table, checker_errors>>
    /\ CheckerFrame

\* visit_ModuleNode as it would be if the module-level statements were
\* checked as well
VisitModuleStatementsToo ==
    /\ Visiting("check", "ModuleNode")
    /\ PushOnly(Visits(Task.node.functions) \o Visits(Task.node.procedures)
                \o Visits(Task.node.statements))

visit_ModuleNode ==
    /\ Visiting("check", "ModuleNode")
    /\ PushOnly(Visits(Task.node.functions) \o Visits(Task.node.procedures))

ExitScopeTask == [op |-> "exit_scope", node |-> None]

visit_FunctionNode ==
    /\ Visiting("check", "FunctionNode")
    /\ symbol_table' = CheckerEnterRoutine(symbol_table, Task.node)
    /\ todo' = Visits(Task.node.body) \o <<ExitScopeTask>> \o Rest
    /\ UNCHANGED checker_errors
    /\ CheckerFrame

visit_ProcedureNode ==
    /\ Visiting("check", "ProcedureNode")
    /\ symbol_table' = CheckerEnterRoutine(symbol_table, Task.node)
    /\ todo' = Visits(Task.node.body) \o <<ExitScopeTask>> \o Rest
    /\ UNCHANGED checker_errors
    /\ CheckerFrame

\* visit_routine_exit as it would be if the routine's scope were kept
RoutineExitKeepingScope ==
    /\ pc = "check"
    /\ todo # <<>>
    /\ Task.op = "exit_scope"
    /\ todo' = Rest
    /\ UNCHANGED <<symbol_table, checker_errors>>
    /\ CheckerFrame

\* the last line of visit_FunctionNode / visit_ProcedureNode
visit_routine_exit ==
    /\ pc = "check"
    /\ todo # <<>>
    /\ Task.op = "exit_scope"
    /\ symbol_table' = exit_scope(symbol_table)
    /\ todo' = Rest
    /\ UNCHANGED checker_errors
    /\ CheckerFrame

\* IdentifierErrors as it would be if only the first problem were reported
IdentifierErrorsFirstOnly(t, node) ==
    IF lookup(t, node.name) = None /\ checker_errors = <<>>
    THEN <<SemanticError("Undefined variable", node.name, node.line,
                         node.column, "undefined_variable")>>
    ELSE <<>>

\* what visit_IdentifierNode appends to the errors
IdentifierErrors(t, node) ==
    IF lookup(t, node.name) = None
    THEN <<SemanticError("Undefined variable", node.name, node.line,
                         node.column, "undefined_variable")>>
    ELSE <<>>

visit_IdentifierNode ==
    /\ Visiting("check", "IdentifierNode")
    /\ checker_errors' = checker_errors \o IdentifierErrors(symbol_table, Task.node)
    /\ todo' = Rest
    /\ UNCHANGED symbol_table
    /\ CheckerFrame

AssignTargetTask(node) == [op |-> "assign_target", node |-> node]

\* visit_AssignmentNode as it would be if the target were handled first
TargetBeforeValue ==
    /\ Visiting("check", "AssignmentNode")
    /\ PushOnly(<<AssignTargetTask(Task.node)>> \o VisitIf(Task.node.value))

\* visit_AssignmentNode lines 450-451: the value is visited first
visit_AssignmentNode ==
    /\ Visiting("check", "AssignmentNode")
    /\ PushOnly(VisitIf(Task.node.value) \o <<AssignTargetTask(Task.node)>>)

\* ImplicitDefine as it would be if the new variable went to the module scope
ImplicitDefineInModuleScope(t, target) ==
    IF lookup(t, target.name) = None
    THEN [t EXCEPT !.scopes[1] =
              DictSet(@, Lower(target.name),
                      Symbol(target.name, "variable", target.line,
                             target.column, 0))]
    ELSE t

\* the table after lines 453-468, for a target that is an IdentifierNode
ImplicitDefine(t, target) ==
    IF lookup(t, target.name) = None
    THEN define(t, target.name,
                Symbol(target.name, "variable", target.line, target.column,
                       get_current_scope_level(t)))
    ELSE t

\* the target step as it would be if every target were visited as an
\* expression, a bare identifier included
VisitEveryAssignmentTarget ==
    /\ pc = "check"
    /\ todo # <<>>
    /\ Task.op = "assign_target"
    /\ PushOnly(<<Visit(Task.node.target)>>)

\* visit_AssignmentNode lines 453-471: the target, after the value
visit_AssignmentNode_target ==
    /\ pc = "check"
    /\ todo # <<>>
    /\ Task.op = "assign_target"
    /\ IF Task.node.target.type = "IdentifierNode"
       THEN /\ symbol_table' = ImplicitDefine(symbol_table, Task.node.target)
            /\ todo' = Rest
       ELSE /\ symbol_table' = symbol_table
            /\ todo' = <<Visit(Task.node.target)>> \o Rest
    /\ UNCHANGED checker_errors
    /\ CheckerFrame

visit_BinaryOpNode ==
    /\ Visiting("check", "BinaryOpNode")
    /\ PushOnly(VisitIf(Task.node.left) \o VisitIf(Task.node.right))

visit_UnaryOpNode ==
    /\ Visiting("check", "UnaryOpNode")
    /\ PushOnly(VisitIf(Task.node.operand))

\* the diagnostics visit_CallNode appends for the callee of a call node
CalleeErrors(t, node) ==
    IF node.function.type = "IdentifierNode"
       /\ lookup(t, node.function.name) = None
    THEN <<SemanticError("Call to undefined function", node.function.name,
                         node.function.line, node.function.column,
                         "undefined_variable")>>
    ELSE <<>>

\* CallVisits as it would be if an undefined callee ended the check of the call
CallVisitsIfCalleeResolves(node) ==
    IF node.function.type = "IdentifierNode"
    THEN (IF lookup(symbol_table, node.function.name) = None THEN <<>>
          ELSE Visits(node.arguments))
    ELSE <<Visit(node.function)>> \o Visits(node.arguments)

\* the visits visit_CallNode makes: the callee unless it is an IdentifierNode,
\* then every argument
CallVisits(node) ==
    (IF node.function.type = "IdentifierNode" THEN <<>>
     ELSE <<Visit(node.function)>>) \o Visits(node.arguments)

visit_CallNode ==
    /\ Visiting("check", "CallNode")
    /\ checker_errors' = checker_errors \o CalleeErrors(symbol_table, Task.node)
    /\ todo' = CallVisits(Task.node) \o Rest
    /\ UNCHANGED symbol_table
    /\ CheckerFrame

visit_MemberAccessNode ==
    /\ Visiting("check", "MemberAccessNode")
    /\ PushOnly(VisitIf(Task.node.object))

\* visit_IndexAccessNode as it would be if the index were not checked
VisitIndexedObjectOnly ==
    /\ Visiting("check", "IndexAccessNode")
    /\ PushOnly(VisitIf(Task.node.object))

visit_IndexAccessNode ==
    /\ Visiting("check", "IndexAccessNode")
    /\ PushOnly(VisitIf(Task.node.object) \o VisitIf(Task.node.index))

visit_ReturnNode ==
    /\ Visiting("check", "ReturnNode")
    /\ PushOnly(VisitIf(Task.node.value))

visit_IfNode ==
    /\ Visiting("check", "IfNode")
    /\ PushOnly(VisitIf(Task.node.condition) \o Visits(Task.node.then_body)
                \o VisitElifBranches(Task.node.elif_branches)
                \o Visits(Task.node.else_body))

visit_WhileNode ==
    /\ Visiting("check", "WhileNode")
    /\ PushOnly(VisitIf(Task.node.condition) \o Visits(Task.node.body))

visit_ForNode ==
    /\ Visiting("check", "ForNode")
    /\ PushOnly(VisitIf(Task.node.start) \o VisitIf(Task.node.end)
                \o Visits(Task.node.body))

visit_ForEachNode ==
    /\ Visiting("check", "ForEachNode")
    /\ PushOnly(VisitIf(Task.node.collection) \o Visits(Task.node.body))

visit_TryNode ==
    /\ Visiting("check", "TryNode")
    /\ PushOnly(Visits(Task.node.try_body) \o Visits(Task.node.except_body))

visit_ExpressionStatementNode ==
    /\ Visiting("check", "ExpressionStatementNode")
    /\ PushOnly(VisitIf(Task.node.expression))

\* the diagnostics visit_NewNode appends for a node
NewErrors(t, node) ==
    IF node.type_name # "" /\ lookup(t, node.type_name) = None
    THEN <<SemanticError("Unknown type", node.type_name, node.line,
                         node.column, "undefined_type")>>
    ELSE <<>>

visit_NewNode ==
    /\ Visiting("check", "NewNode")
    /\ checker_errors' = checker_errors \o NewErrors(symbol_table, Task.node)
    /\ todo' = Visits(Task.node.arguments) \o Rest
    /\ UNCHANGED symbol_table
    /\ CheckerFrame

visit_LiteralNode ==
    /\ Visiting("check", "LiteralNode")
    /\ PushOnly(<<>>)

visit_BreakNode ==
    /\ Visiting("check", "BreakNode")
    /\ PushOnly(<<>>)

visit_ContinueNode ==
    /\ Visiting("check", "ContinueNode")
    /\ PushOnly(<<>>)

visit_AwaitNode ==
    /\ Visiting("check", "AwaitNode")
    /\ PushOnly(VisitIf(Task.node.expression))

visit_VarDeclarationNode ==
    /\ Visiting("check", "VarDeclarationNode")
    /\ PushOnly(<<>>)

\* ASTVisitor.visit falling back to generic_visit
generic_visit ==
    /\ pc = "check"
    /\ todo # <<>>
    /\ Task.op = "visit"
    /\ IsGeneric(Task.node)
    /\ PushOnly(GenericChildren(Task.node))

-----------------------------------------------------------------------------
(* The modules analysed: what the parser can produce, within the bounds.      *)
(* A statement of routine k (1, 2, 3) sits on a line whose first digit is k;  *)
(* a statement nested in the block of a statement on line l sits on line      *)
(* 10*l + j.  The root expressions of a statement are at columns 1, 2, 3; the *)
(* children of an expression at column c are at columns 8*c .. 8*c + 7.       *)

AtomKinds == {"x", "y", "lit"}

Atom(k, l, c) ==
    IF k = "lit" THEN LiteralNode(l, c) ELSE IdentifierNode(k, l, c)

Atoms(l, c) == {Atom(k, l, c) : k \in AtomKinds}

\* lists of at most `max` atoms as arguments, at columns 8*c + 1, 8*c + 2, ..
ArgLists(l, c, max) ==
    {[i \in 1..Len(ks) |-> Atom(ks[i], l, 8 * c + i)] :
        ks \in UNION {[1..n -> AtomKinds] : n \in 0..max}}

\* callee names: the routine itself (defined), a name nothing defines, and a
\* name only a registry defines
CalleeNames == {"F", "u", "Msg"}

\* type names: one only a registry defines, one nothing defines
TypeNames == {"T", "U"}

\* expressions with one operator over atoms, at most `max` arguments
Compound(l, c, max) ==
    {BinaryOpNode(a, b, l, c) : a \in Atoms(l, 8 * c), b \in Atoms(l, 8 * c + 1)}
    \cup {UnaryOpNode(a, l, c) : a \in Atoms(l, 8 * c)}
    \cup {TernaryNode(a, b, IdentifierNode("y", l, 8 * c + 2), l, c) :
             a \in Atoms(l, 8 * c), b \in Atoms(l, 8 * c + 1)}
    \cup {CallNode(IdentifierNode(f, l, 8 * c), args, l, c) :
             f \in CalleeNames, args \in ArgLists(l, c, max)}
    \cup {CallNode(MemberAccessNode(IdentifierNode(o, l, 64 * c), "m", l, 8 * c),
                   args, l, c) :
             o \in {"x", "y"}, args \in ArgLists(l, c, max)}
    \cup {MemberAccessNode(a, "m", l, c) : a \in Atoms(l, 8 * c)}
    \cup {IndexAccessNode(a, b, l, c) :
             a \in Atoms(l, 8 * c), b \in Atoms(l, 8 * c + 1)}
    \cup {NewNode(t, args, l, c) : t \in TypeNames, args \in ArgLists(l, c, max)}

\* expressions with a second operator around a compound one, which has one
\* argument less than MaxArgs at most
Nested(l, c) ==
    UNION {{UnaryOpNode(e, l, c),
            MemberAccessNode(e, "m", l, c),
            IndexAccessNode(e, IdentifierNode("y", l, 8 * c + 1), l, c),
            BinaryOpNode(e, IdentifierNode("x", l, 8 * c + 1), l, c),
            CallNode(e, <<>>, l, c)} : e \in Compound(l, 8 * c, MaxArgs - 1)}
    \cup
    UNION {{IndexAccessNode(IdentifierNode("x", l, 8 * c), e, l, c),
            CallNode(IdentifierNode("F", l, 8 * c), <<e>>, l, c),
            CallNode(IdentifierNode("u", l, 8 * c), <<e>>, l, c),
            NewNode("U", <<e>>, l, c)} :
              e \in Compound(l, 8 * c + 1, MaxArgs - 1)}

\* the statements that hold one expression e, on line l
StatementsOf(e, l) ==
    {ExpressionStatementNode(e, l, 0),
     ReturnNode(e, l, 0),
     AssignmentNode(IdentifierNode("y", l, 2), e, l, 0),
     AssignmentNode(MemberAccessNode(IdentifierNode("x", l, 16), "m", l, 2),
                    e, l, 0),
     AssignmentNode(IndexAccessNode(IdentifierNode("y", l, 16),
                                    IdentifierNode("x", l, 17), l, 2),
                    e, l, 0),
     AwaitNode(e, l, 0),
     RaiseNode(e, l, 0),
     IfNode(e, <<>>, <<>>, <<>>, l, 0),
     IfNode(LiteralNode(l, 3), <<>>, <<<<e, <<>>>>>>, <<>>, l, 0),
     WhileNode(e, <<BreakNode(10 * l + 1, 0)>>, l, 0),
     ForNode("i", e, IdentifierNode("i", l, 2), <<ContinueNode(10 * l + 1, 0)>>,
             l, 0),
     ForEachNode("e", e, <<>>, l, 0)}

\* the statements used around a compound expression
FewStatementsOf(e, l) ==
    {ExpressionStatementNode(e, l, 0),
     AssignmentNode(IdentifierNode("y", l, 2), e, l, 0),
     AssignmentNode(IndexAccessNode(IdentifierNode("y", l, 16),
                                    IdentifierNode("x", l, 17), l, 2),
                    e, l, 0)}

\* optional statements ahead of the one under study, on line l
Preambles(l) ==
    {<<>>, <<VarDeclarationNode(<<"X">>, l, 0)>>}

\* bodies of routine k that hold one expression statement: an atom in every
\* kind of statement, a compound expression in three, a nested one in one
ExpressionBodies(k) ==
    {pre \o <<s>> :
        pre \in Preambles(10 * k + 1),
        s \in UNION {StatementsOf(e, 10 * k + 2) : e \in Atoms(10 * k + 2, 1)}
              \cup UNION {FewStatementsOf(e, 10 * k + 2) :
                             e \in Compound(10 * k + 2, 1, MaxArgs)}
              \cup {ExpressionStatementNode(e, 10 * k + 2, 0) :
                       e \in Nested(10 * k + 2, 1)}}

\* the blocks a statement can be nested in
BlockKinds ==
    {"then", "elif", "else", "while", "for", "foreach", "try", "except"}

\* a statement on line l whose block of the given kind holds `body`
Block(kind, body, l) ==
    CASE kind = "then" -> IfNode(LiteralNode(l, 1), body, <<>>, <<>>, l, 0)
      [] kind = "elif" ->
             IfNode(LiteralNode(l, 1), <<>>, <<<<LiteralNode(l, 2), body>>>>,
                    <<>>, l, 0)
      [] kind = "else" -> IfNode(LiteralNode(l, 1), <<>>, <<>>, body, l, 0)
      [] kind = "while" -> WhileNode(LiteralNode(l, 1), body, l, 0)
      [] kind = "for" ->
             ForNode("i", LiteralNode(l, 1), LiteralNode(l, 2), body, l, 0)
      [] kind = "foreach" ->
             ForEachNode("e", IdentifierNode("i", l, 1), body, l, 0)
      [] kind = "try" -> TryNode(body, <<>>, l, 0)
      [] kind = "except" -> TryNode(<<>>, body, l, 0)

\* the ways a body introduces the name n, on line l
DeclarationKinds == {"var", "for", "foreach", "assign"}

Declaration(kind, n, l) ==
    CASE kind = "var" -> VarDeclarationNode(<<"z", n>>, l, 0)
      [] kind = "for" ->
             ForNode(n, LiteralNode(l, 1), LiteralNode(l, 2), <<>>, l, 0)
      [] kind = "foreach" ->
             ForEachNode(n, LiteralNode(l, 1), <<>>, l, 0)
      [] kind = "assign" ->
             AssignmentNode(IdentifierNode(n, l, 2), LiteralNode(l, 1), l, 0)

RECURSIVE NestIn(_, _, _)
\* `body` (built for the innermost line) wrapped in the blocks of `path`,
\* outermost first; the outermost statement is on line l
NestIn(path, body, l) ==
    IF path = <<>> THEN body
    ELSE <<Block(Head(path), NestIn(Tail(path), body, 10 * l + 1), l)>>

RECURSIVE InnerLine(_, _)
\* the line of the statements inside the blocks of `path` that start on line l
InnerLine(path, l) ==
    IF path = <<>> THEN l ELSE InnerLine(Tail(path), 10 * l + 1)

\* the blocks used below the second level of nesting
DeepBlockKinds == {"elif", "while", "foreach", "except"}

\* the nestings of at most MaxNest blocks, outermost first: every kind of
\* block at the first two levels, the deep kinds below them
BlockPaths ==
    UNION {{p \o q : p \in [1..IF d < 2 THEN d ELSE 2 -> BlockKinds],
                     q \in [1..IF d < 2 THEN 0 ELSE d - 2 -> DeepBlockKinds]} :
              d \in 0..MaxNest}

\* a reference to name m on line l
Reference(m, l) == ReturnNode(IdentifierNode(m, l, 1), l, 0)

ReferenceNames == {"x", "y"}

\* bodies of routine k: a declaration of "X" inside nested blocks and one
\* reference, placed right after the declaration inside the innermost block,
\* after the outermost block, or before it
NestedBodies(k) ==
    UNION {
        LET l == 10 * k + 2
            il == InnerLine(path, l)
            decl == Declaration(dk, "X", il)
        IN  {NestIn(path, <<decl, Reference(m, il + 1)>>, l),
             NestIn(path, <<decl>>, l) \o <<Reference(m, 10 * k + 3)>>,
             <<Reference(m, 10 * k + 1)>> \o NestIn(path, <<decl>>, l)} :
        path \in BlockPaths, dk \in DeclarationKinds, m \in ReferenceNames}


\* bodies of routine k that use module-level names, another routine's
\* parameter "a" and the local "y", declared by Перем, by assignment or as a
\* loop variable
SmallBodies(k) ==
    LET l == 10 * k + 1
    IN  {<<>>,
         <<ReturnNode(IdentifierNode("g", l, 1), l, 0)>>,
         <<AssignmentNode(IdentifierNode("G", l, 2), LiteralNode(l, 1), l, 0),
           ReturnNode(IdentifierNode("g", l + 1, 1), l + 1, 0)>>,
         <<ExpressionStatementNode(
               CallNode(IdentifierNode("H", l, 8),
                        <<IdentifierNode("g", l, 9)>>, l, 1), l, 0)>>,
         <<ExpressionStatementNode(
               CallNode(IdentifierNode("p", l, 8), <<>>, l, 1), l, 0)>>,
         <<ReturnNode(IdentifierNode("a", l, 1), l, 0)>>,
         <<AssignmentNode(IdentifierNode("y", l, 2), LiteralNode(l, 1), l, 0)>>,
         <<ReturnNode(IdentifierNode("y", l, 1), l, 0)>>,
         <<VarDeclarationNode(<<"y">>, l, 0)>>,
         <<ForEachNode("y", IdentifierNode("g", l, 1), <<>>, l, 0)>>}

\* module-level Перем declarations
ModuleVarDeclarations ==
    {<<>>,
     <<VarDeclarationNode(<<"g">>, 91, 1)>>,
     <<VarDeclarationNode(<<"y">>, 91, 1), VarDeclarationNode(<<"G">>, 92, 1)>>}

\* modules with one function F
SingleModules ==
    {ModuleNode(<<>>, <<FunctionNode("F", <<>>, body, 1, 1)>>, <<>>, <<>>) :
        body \in ExpressionBodies(1) \cup NestedBodies(1)}

\* modules with the functions F and H(a) and, or not, the procedure P
MultiModules ==
    {ModuleNode(v,
                <<FunctionNode("F", <<>>, b1, 1, 1),
                  FunctionNode("H", <<ParameterNode("a", 2, 2)>>, b2, 2, 1)>>,
                procs, <<>>) :
        v \in ModuleVarDeclarations,
        b1 \in SmallBodies(1),
        b2 \in SmallBodies(2),
        procs \in {<<>>} \cup {<<ProcedureNode("P", <<>>, b3, 3, 1)>> :
                                  b3 \in SmallBodies(3)}}

\* modules analysed with a registry: construction and calls
BuiltinModules ==
    {ModuleNode(<<>>,
                <<FunctionNode("F", <<>>,
                               <<ExpressionStatementNode(e, 12, 0)>>, 1, 1)>>,
                <<>>, <<>>) :
        e \in Compound(12, 1, MaxArgs)}

\* `y = b + c + d` in a function that declares nothing
ThreeUndeclaredModule ==
    ModuleNode(<<>>,
               <<FunctionNode("F", <<>>,
                     <<AssignmentNode(
                           IdentifierNode("y", 12, 2),
                           BinaryOpNode(
                               BinaryOpNode(IdentifierNode("b", 12, 64),
                                            IdentifierNode("c", 12, 65), 12, 8),
                               IdentifierNode("d", 12, 9), 12, 1),
                           12, 0)>>, 1, 1)>>,
               <<>>, <<>>)

\* a registry as load_from_cache builds it from a cache with lowercase keys
RegistryA ==
    [functions |-> ("msg" :> BuiltinInfo("Msg", "Message", "global")),
     types |-> ("t" :> BuiltinInfo("T", "T", "collections"))]

\* a loaded registry where one key is a function and a type, and where the
\* records carry no localized name (info.get('ru', '') found nothing)
RegistryB ==
    [functions |-> ("msg" :> BuiltinInfo("", "Message", "global")
                    @@ "t" :> BuiltinInfo("T", "T", "global")),
     types |-> ("t" :> BuiltinInfo("", "T", "collections")
                @@ "u" :> BuiltinInfo("U", "U", "collections"))]

\* roots that are not a ModuleNode
NonModuleRoots ==
    {None,
     FunctionNode("F", <<>>, <<ReturnNode(IdentifierNode("u", 11, 1), 11, 0)>>,
                  1, 1)}

\* <<module, registry>>: what a client constructs an analyzer with and parses
Inputs ==
    {<<m, None>> : m \in SingleModules \cup MultiModules
                             \cup {ThreeUndeclaredModule}}
    \cup {<<m, RegistryA>> : m \in BuiltinModules}

-----------------------------------------------------------------------------
(* The analyzer and its client *)

Init ==
    /\ \E in \in Inputs : ast = in[1] /\ builtins = in[2]
    /\ root = NotCalled
    /\ errors = <<>>
    /\ symbol_table = None
    /\ collector_table = None
    /\ checker_errors = <<>>
    /\ todo = <<>>
    /\ pc = "idle"
    /\ lexer = None
    /\ parser = None
    /\ result = None

Next ==
    \/ \E r \in NonModuleRoots : analyze_invalid(r)
    \/ analyze_module(ast)
    \/ Collector_visit_ModuleNode
    \/ CollectFunction
    \/ CollectProcedure
    \/ _check_undefined_variables
    \/ analyze_return
    \/ visit_ModuleNode
    \/ visit_FunctionNode
    \/ visit_ProcedureNode
    \/ visit_routine_exit
    \/ visit_IdentifierNode
    \/ visit_AssignmentNode
    \/ visit_AssignmentNode_target
    \/ visit_BinaryOpNode
    \/ visit_UnaryOpNode
    \/ visit_CallNode
    \/ visit_MemberAccessNode
    \/ visit_IndexAccessNode
    \/ visit_ReturnNode
    \/ visit_IfNode
    \/ visit_WhileNode
    \/ visit_ForNode
    \/ visit_ForEachNode
    \/ visit_TryNode
    \/ visit_ExpressionStatementNode
    \/ visit_NewNode
    \/ visit_LiteralNode
    \/ visit_BreakNode
    \/ visit_ContinueNode
    \/ visit_AwaitNode
    \/ visit_VarDeclarationNode
    \/ generic_visit

Spec == Init /\ [][Next]_vars

-----------------------------------------------------------------------------
(* A client of SymbolTable alone: it opens and closes scopes and defines     *)
(* names, as the collector, the checker and the tests do                     *)

\* the names the client defines
TableNames == {"x", "X", "y"}

\* the names the client looks up
QueryNames == {"x", "X", "y", "Y"}

\* the symbol the client defines for name n
TableSymbol(t, n) == Symbol(n, "variable", 1, 1, get_current_scope_level(t))

\* the client's position: "table" after construction, then the method it
\* called last
TableCalls == {"table", "enter_scope", "exit_scope", "define"}

TableFrame ==
    UNCHANGED <<lexer, parser, result, ast, root, builtins, errors, collector_table, checker_errors,
                todo>>

SymInit ==
    /\ builtins \in {None, RegistryA, RegistryB}
    /\ symbol_table = SymbolTable(builtins)
    /\ ast = None
    /\ root = NotCalled
    /\ errors = <<>>
    /\ collector_table = None
    /\ checker_errors = <<>>
    /\ todo = <<>>
    /\ pc = "table"
    /\ lexer = None
    /\ parser = None
    /\ result = None

call_enter_scope ==
    /\ pc \in TableCalls
    /\ Len(symbol_table.scopes) < MaxScopes
    /\ symbol_table' = enter_scope(symbol_table)
    /\ pc' = "enter_scope"
    /\ TableFrame

call_exit_scope ==
    /\ pc \in TableCalls
    /\ symbol_table' = exit_scope(symbol_table)
    /\ pc' = "exit_scope"
    /\ TableFrame

call_define(n) ==
    /\ pc \in TableCalls
    /\ symbol_table' = define(symbol_table, n, TableSymbol(symbol_table, n))
    /\ pc' = "define"
    /\ TableFrame

SymNext ==
    \/ call_enter_scope
    \/ call_exit_scope
    \/ \E n \in TableNames : call_define(n)

SpecSym == SymInit /\ [][SymNext]_vars

-----------------------------------------------------------------------------
(* Tokens and the lexer (syntax/lexer/token.py, syntax/lexer/lexer.py).     *)
(* A source text is a sequence of characters and a token's value the       *)
(* sequence of characters it holds.  Cyrillic letters are written in Latin *)
(* transliteration (И as I, Л as L, Н as N, Е as E); "a" is a Latin        *)
(* letter and "BOM" stands for the byte order mark U+FEFF.                 *)

Token(type, value, l, c) ==
    [type |-> type, value |-> value, line |-> l, column |-> c]

\* the entries of KEYWORDS that can be spelled with the letters of the model:
\* "И", "ИЛИ" and "НЕ"
KEYWORDS ==
    (<<"I">> :> "KEYWORD_AND")
    @@ (<<"I", "L", "I">> :> "KEYWORD_OR")
    @@ (<<"N", "E">> :> "KEYWORD_NOT")

\* str.lower()
LowerStr(value) == [i \in DOMAIN value |-> Lower(value[i])]

\* KEYWORDS_LOWER = {k.lower(): v for k, v in KEYWORDS.items()}
KEYWORDS_LOWER ==
    [k \in {LowerStr(w) : w \in DOMAIN KEYWORDS} |->
        KEYWORDS[CHOOSE w \in DOMAIN KEYWORDS : LowerStr(w) = k]]

OPERATORS ==
    (<<"+">> :> "OP_PLUS")
    @@ (<<"-">> :> "OP_MINUS")
    @@ (<<"*">> :> "OP_MULTIPLY")
    @@ (<<"/">> :> "OP_DIVIDE")
    @@ (<<"%">> :> "OP_MODULO")
    @@ (<<"=">> :> "OP_ASSIGN")
    @@ (<<"<", ">">> :> "OP_NOT_EQUALS")
    @@ (<<"<">> :> "OP_LESS")
    @@ (<<">">> :> "OP_GREATER")
    @@ (<<"<", "=">> :> "OP_LESS_EQUAL")
    @@ (<<">", "=">> :> "OP_GREATER_EQUAL")
    @@ (<<"?">> :> "OP_TERNARY")

DELIMITERS ==
    (";" :> "DELIMITER_SEMICOLON")
    @@ ("," :> "DELIMITER_COMMA")
    @@ ("." :> "DELIMITER_DOT")
    @@ ("(" :> "DELIMITER_LPAREN")
    @@ (")" :> "DELIMITER_RPAREN")
    @@ ("[" :> "DELIMITER_LBRACKET")
    @@ ("]" :> "DELIMITER_RBRACKET")
    @@ ("|" :> "DELIMITER_PIPE")

LexerError(text, detail, l, c) ==
    [type |-> "LexerError", message |-> <<text, detail>>, line |-> l,
     column |-> c]

\* Python's None where a character is expected
NoChar == ""

\* Lexer._is_cyrillic, on the transliterated letters
_is_cyrillic(char) == char \in {"I", "i", "L", "l", "N", "n", "E", "e"}

\* str.isdigit, str.isalpha and str.isalnum on the characters of the model
IsDigit(char) == char \in {"1", "2"}

IsAlpha(char) == char \in {"a", "A"} \/ _is_cyrillic(char)

IsAlnum(char) == IsAlpha(char) \/ IsDigit(char)

\* the characters str.strip() removes
IsSpace(char) == char \in {" ", "\t", "\r", "\n"}

\* Lexer.__init__: a leading byte order mark is dropped
Lexer(source_code) ==
    [source |-> IF source_code # <<>> /\ Head(source_code) = "BOM"
                THEN Tail(source_code) ELSE source_code,
     pos |-> 0, line |-> 1, column |-> 1, tokens |-> <<>>]

current_char(lx) ==
    IF lx.pos >= Len(lx.source) THEN NoChar ELSE lx.source[lx.pos + 1]

peek_char(lx, offset) ==
    IF lx.pos + offset >= Len(lx.source) THEN NoChar
    ELSE lx.source[lx.pos + offset + 1]

\* Lexer.advance
Lexer_advance(lx) ==
    IF lx.pos >= Len(lx.source) THEN lx
    ELSE [lx EXCEPT !.pos = @ + 1,
                    !.line = IF current_char(lx) = "\n" THEN @ + 1 ELSE @,
                    !.column = IF current_char(lx) = "\n" THEN 1 ELSE @ + 1]

\* the one element of a singleton set.  The loops below are written as
\* Only({Iteration(x) : x \in {x0}}) so that the state an iteration starts
\* from is evaluated once, not once for each place that reads it
Only(S) == CHOOSE x \in S : TRUE

RECURSIVE skip_whitespace(_)
skip_whitespace(lx0) ==
    LET Iteration(lx) ==
            IF current_char(lx) \in {" ", "\t", "\r"}
            THEN skip_whitespace(Lexer_advance(lx))
            ELSE lx
    IN  Only({Iteration(lx) : lx \in {lx0}})

\* what a read_* method leaves: the lexer, and the token it returns or the
\* LexerError it raises
Read(lx, token) == [lexer |-> lx, token |-> token]

\* the error read_string raises, as it would be if positioned where the
\* input ended
UnterminatedStringAtEnd(lx, start_line, start_column) ==
    LexerError("Unterminated string literal", "", lx.line, lx.column)

\* raise LexerError("Unterminated string literal", start_line, start_column)
UnterminatedString(lx, start_line, start_column) ==
    LexerError("Unterminated string literal", "", start_line, start_column)

\* the while loop of read_string
RECURSIVE ReadStringLoop(_, _, _, _)
ReadStringLoop(lx0, value0, start_line, start_column) ==
    LET Iteration(lx, value) ==
            LET char == current_char(lx)
            IN  IF char = NoChar
                THEN Read(lx, UnterminatedString(lx, start_line, start_column))
                ELSE IF char = "\""
                THEN IF peek_char(lx, 1) = "\""
                     THEN ReadStringLoop(Lexer_advance(Lexer_advance(lx)),
                                         Append(value, "\""), start_line, start_column)
                     ELSE Read(Lexer_advance(lx),
                               Token("LITERAL_STRING", value, start_line, start_column))
                ELSE ReadStringLoop(Lexer_advance(lx), Append(value, char),
                                    start_line, start_column)
    IN  Only({Iteration(lx, value) : lx \in {lx0}, value \in {value0}})

read_string(lx) == ReadStringLoop(Lexer_advance(lx), <<>>, lx.line, lx.column)

\* the while loop of read_number
RECURSIVE ReadNumberLoop(_, _, _)
ReadNumberLoop(lx0, value0, has_dot) ==
    LET Iteration(lx, value) ==
            LET char == current_char(lx)
            IN  IF char # NoChar /\ IsDigit(char)
                THEN ReadNumberLoop(Lexer_advance(lx), Append(value, char), has_dot)
                ELSE IF char = "." /\ ~has_dot /\ IsDigit(peek_char(lx, 1))
                THEN ReadNumberLoop(Lexer_advance(lx), Append(value, char), TRUE)
                ELSE Read(lx, value)
    IN  Only({Iteration(lx, value) : lx \in {lx0}, value \in {value0}})

read_number(lx) ==
    LET r == ReadNumberLoop(lx, <<>>, FALSE)
    IN  Read(r.lexer, Token("LITERAL_NUMBER", r.token, lx.line, lx.column))

\* the while loop of read_identifier_or_keyword
RECURSIVE ReadWordLoop(_, _)
ReadWordLoop(lx0, value0) ==
    LET Iteration(lx, value) ==
            LET char == current_char(lx)
            IN  IF char # NoChar /\ (IsAlnum(char) \/ char = "_" \/ _is_cyrillic(char))
                THEN ReadWordLoop(Lexer_advance(lx), Append(value, char))
                ELSE Read(lx, value)
    IN  Only({Iteration(lx, value) : lx \in {lx0}, value \in {value0}})

\* the keyword kind of a word, or IDENTIFIER, as it would be if the word
\* were looked up as written
KindAsWritten(value) ==
    IF value \in DOMAIN KEYWORDS_LOWER THEN KEYWORDS_LOWER[value]
    ELSE "IDENTIFIER"

\* lines 173-178: the keyword kind of a word, or IDENTIFIER
KindOfWord(value) ==
    IF LowerStr(value) \in DOMAIN KEYWORDS_LOWER
    THEN KEYWORDS_LOWER[LowerStr(value)]
    ELSE "IDENTIFIER"

read_identifier_or_keyword(lx) ==
    LET r == ReadWordLoop(lx, <<>>)
    IN  Read(r.lexer, Token(KindOfWord(r.token), r.token, lx.line, lx.column))

RECURSIVE LStrip(_)
LStrip(value) ==
    IF value # <<>> /\ IsSpace(Head(value)) THEN LStrip(Tail(value)) ELSE value

RECURSIVE RStrip(_)
RStrip(value) ==
    IF value # <<>> /\ IsSpace(value[Len(value)])
    THEN RStrip(SubSeq(value, 1, Len(value) - 1))
    ELSE value

\* str.strip()
Strip(value) == RStrip(LStrip(value))

\* the rest of the line: the loop of read_comment and of read_preprocessor
RECURSIVE ReadLineLoop(_, _)
ReadLineLoop(lx0, value0) ==
    LET Iteration(lx, value) ==
            LET char == current_char(lx)
            IN  IF char # NoChar /\ char # "\n"
                THEN ReadLineLoop(Lexer_advance(lx), Append(value, char))
                ELSE Read(lx, value)
    IN  Only({Iteration(lx, value) : lx \in {lx0}, value \in {value0}})

read_comment(lx) ==
    LET r == ReadLineLoop(Lexer_advance(Lexer_advance(lx)), <<>>)
    IN  Read(r.lexer, Token("COMMENT", Strip(r.token), lx.line, lx.column))

\* the while loop of read_annotation
RECURSIVE ReadAnnotationLoop(_, _)
ReadAnnotationLoop(lx0, value0) ==
    LET Iteration(lx, value) ==
            LET char == current_char(lx)
            IN  IF char # NoChar /\ (IsAlnum(char) \/ _is_cyrillic(char))
                THEN ReadAnnotationLoop(Lexer_advance(lx), Append(value, char))
                ELSE Read(lx, value)
    IN  Only({Iteration(lx, value) : lx \in {lx0}, value \in {value0}})

read_annotation(lx) ==
    LET r == ReadAnnotationLoop(Lexer_advance(lx), <<"&">>)
    IN  Read(r.lexer, Token("ANNOTATION", r.token, lx.line, lx.column))

\* str.startswith
StartsWith(value, prefix) ==
    Len(value) >= Len(prefix) /\ SubSeq(value, 1, Len(prefix)) = prefix

\* the kind read_preprocessor gives a directive: "#если", "#конецесли",
\* "#иначе", "#область", "#конецобласти" in this order, else the generic kind
PreprocessorKind(value_lower) ==
    IF StartsWith(value_lower, <<"#", "e", "s", "l", "i">>)
    THEN "PREPROCESSOR_IF"
    ELSE IF StartsWith(value_lower,
                       <<"#", "k", "o", "n", "e", "c", "e", "s", "l", "i">>)
    THEN "PREPROCESSOR_ENDIF"
    ELSE IF StartsWith(value_lower, <<"#", "i", "n", "a", "c", "e">>)
    THEN "PREPROCESSOR_ELSE"
    ELSE IF StartsWith(value_lower,
                       <<"#", "o", "b", "l", "a", "s", "t">>)
    THEN "PREPROCESSOR_IF"
    ELSE IF StartsWith(value_lower,
                       <<"#", "k", "o", "n", "e", "c", "o", "b", "l", "a",
                         "s", "t", "i">>)
    THEN "PREPROCESSOR_ENDIF"
    ELSE "PREPROCESSOR_IF"

read_preprocessor(lx) ==
    LET r == ReadLineLoop(lx, <<>>)
        value == Strip(r.token)
    IN  Read(r.lexer, Token(PreprocessorKind(LowerStr(value)), value,
                            lx.line, lx.column))

\* the while loop of read_date
RECURSIVE ReadDateLoop(_, _, _, _)
ReadDateLoop(lx0, value0, start_line, start_column) ==
    LET Iteration(lx, value) ==
            LET char == current_char(lx)
            IN  IF char = NoChar
                THEN Read(lx, LexerError("Unterminated date literal", "",
                                         start_line, start_column))
                ELSE IF char = "'"
                THEN Read(Lexer_advance(lx),
                          Token("LITERAL_DATE", value, start_line, start_column))
                ELSE IF IsDigit(char)
                THEN ReadDateLoop(Lexer_advance(lx), Append(value, char),
                                  start_line, start_column)
                ELSE Read(lx, LexerError("Invalid date literal: unexpected character",
                                         char, lx.line, lx.column))
    IN  Only({Iteration(lx, value) : lx \in {lx0}, value \in {value0}})

read_date(lx) == ReadDateLoop(Lexer_advance(lx), <<>>, lx.line, lx.column)

\* read_operator as it would be if it returned the token of a one-character
\* operator without consuming the character
ReadOperatorWithoutAdvance(lx) ==
    IF <<current_char(lx)>> \in DOMAIN OPERATORS
    THEN Read(lx, Token(OPERATORS[<<current_char(lx)>>], <<current_char(lx)>>,
                        lx.line, lx.column))
    ELSE Read(lx, None)

\* read_operator: the token, or None when the character starts no operator
read_operator(lx) ==
    LET char == current_char(lx)
        next_char == peek_char(lx, 1)
        two_char == IF next_char # NoChar THEN <<char, next_char>>
                    ELSE <<char>>
    IN  IF two_char \in DOMAIN OPERATORS
        THEN Read(Lexer_advance(Lexer_advance(lx)),
                  Token(OPERATORS[two_char], two_char, lx.line, lx.column))
        ELSE IF <<char>> \in DOMAIN OPERATORS
        THEN Read(Lexer_advance(lx),
                  Token(OPERATORS[<<char>>], <<char>>, lx.line, lx.column))
        ELSE Read(lx, None)

\* the branch an iteration of tokenize()'s main loop takes, skip_whitespace()
\* done, in the order the method tests them
Branch(lx) ==
    LET char == current_char(lx)
    IN  IF char = NoChar THEN "break"
        ELSE IF char = "\n" THEN "newline"
        ELSE IF char = "/" /\ peek_char(lx, 1) = "/" THEN "comment"
        ELSE IF char = "\"" THEN "string"
        ELSE IF char = "'" THEN "date"
        ELSE IF char = "&" THEN "annotation"
        ELSE IF char = "#" THEN "preprocessor"
        ELSE IF IsDigit(char) THEN "number"
        ELSE IF IsAlpha(char) \/ char = "_" \/ _is_cyrillic(char)
        THEN "identifier"
        ELSE IF char \in DOMAIN DELIMITERS THEN "delimiter"
        ELSE IF read_operator(lx).token # None THEN "operator"
        ELSE "unexpected"

\* the entry points of the lexer
LexCalls == {"tokenize", "tokenize_without_whitespace"}

\* tokenize() is inside its main loop, about to take branch b
InLoop(b) ==
    /\ pc \in LexCalls
    /\ lexer.pos < Len(lexer.source)
    /\ Branch(skip_whitespace(lexer)) = b

LexFrame ==
    UNCHANGED <<ast, root, builtins, errors, symbol_table, collector_table,
                checker_errors, todo, parser>>

\* the iteration appends the token a read_* method returned and continues,
\* or the LexerError the method raised leaves tokenize()
Emit(r0) ==
    /\ \E r \in {r0} :
           IF r.token.type = "LexerError"
           THEN /\ lexer' = r.lexer
                /\ pc' = "raised"
                /\ result' = r.token
           ELSE /\ lexer' = [r.lexer EXCEPT !.tokens = Append(@, r.token)]
                /\ UNCHANGED <<pc, result>>
    /\ LexFrame

\* the filter as it would be if it tested for NEWLINE alone
WithoutNewlines(all_tokens) ==
    SelectSeq(all_tokens, LAMBDA t : t.type # "NEWLINE")

\* the list keeps the tokens that are neither NEWLINE nor COMMENT
RECURSIVE WithoutWhitespace(_)
WithoutWhitespace(all_tokens) ==
    IF all_tokens = <<>> THEN <<>>
    ELSE IF Head(all_tokens).type \in {"NEWLINE", "COMMENT"}
    THEN WithoutWhitespace(Tail(all_tokens))
    ELSE <<Head(all_tokens)>> \o WithoutWhitespace(Tail(all_tokens))

\* the client calls tokenize() or tokenize_without_whitespace(), on a new
\* lexer or on one it has used: self.tokens = []
call_tokenize(entry) ==
    /\ pc \in {"constructed", "returned", "raised"}
    /\ lexer' = [lexer EXCEPT !.tokens = <<>>]
    /\ pc' = entry
    /\ result' = None
    /\ LexFrame

\* only whitespace was left: break
tokenize_break ==
    /\ InLoop("break")
    /\ lexer' = skip_whitespace(lexer)
    /\ UNCHANGED <<pc, result>>
    /\ LexFrame

tokenize_newline ==
    /\ InLoop("newline")
    /\ LET lx == skip_whitespace(lexer)
       IN  Emit(Read(Lexer_advance(lx),
                     Token("NEWLINE", <<"\\", "n">>, lx.line, lx.column)))

tokenize_comment ==
    /\ InLoop("comment")
    /\ Emit(read_comment(skip_whitespace(lexer)))

tokenize_string ==
    /\ InLoop("string")
    /\ Emit(read_string(skip_whitespace(lexer)))

tokenize_date ==
    /\ InLoop("date")
    /\ Emit(read_date(skip_whitespace(lexer)))

tokenize_annotation ==
    /\ InLoop("annotation")
    /\ Emit(read_annotation(skip_whitespace(lexer)))

tokenize_preprocessor ==
    /\ InLoop("preprocessor")
    /\ Emit(read_preprocessor(skip_whitespace(lexer)))

tokenize_number ==
    /\ InLoop("number")
    /\ Emit(read_number(skip_whitespace(lexer)))

tokenize_identifier ==
    /\ InLoop("identifier")
    /\ Emit(read_identifier_or_keyword(skip_whitespace(lexer)))

tokenize_delimiter ==
    /\ InLoop("delimiter")
    /\ LET lx == skip_whitespace(lexer)
       IN  Emit(Read(Lexer_advance(lx),
                     Token(DELIMITERS[current_char(lx)], <<current_char(lx)>>,
                           lx.line, lx.column)))

tokenize_operator ==
    /\ InLoop("operator")
    /\ Emit(read_operator(skip_whitespace(lexer)))

\* no branch takes the character: raise LexerError
tokenize_unexpected ==
    /\ InLoop("unexpected")
    /\ LET lx == skip_whitespace(lexer)
       IN  Emit(Read(lx, LexerError("Unexpected character", current_char(lx),
                                    lx.line, lx.column)))

\* a Python list of tokens as a value a call returned
TokenList(items) == [type |-> "list", items |-> items]

\* what the entry point returns, given the list tokenize() built
Returned(entry, all_tokens) ==
    IF entry = "tokenize" THEN all_tokens ELSE WithoutWhitespace(all_tokens)

\* the main loop is over: the EOF token is appended and the list returned
tokenize_return ==
    /\ pc \in LexCalls
    /\ lexer.pos >= Len(lexer.source)
    /\ lexer' = [lexer EXCEPT !.tokens =
                     Append(@, Token("EOF", <<>>, lexer.line, lexer.column))]
    /\ result' = TokenList(Returned(pc, lexer'.tokens))
    /\ pc' = "returned"
    /\ LexFrame

\* longest source text over the characters of strings, comments and lines
MaxSource == 4

\* all sequences over S of length at most n
SeqsUpTo(S, n) == UNION {[1..k -> S] : k \in 0..n}

\* quotes, line ends, blanks, a letter and the slash
TextChars == {"\"", "\n", " ", "a", "/"}

\* the letters of the keywords I and ILI in both cases, and the blank
WordChars == {"I", "i", "L", "l", " "}

\* the characters of the other branches of tokenize()
OtherChars == {"'", "1", ".", "&", "#", ";", "<", ">", "=", "@", "BOM", "\t",
               "_"}

\* the source texts the lexer is given
Sources ==
    SeqsUpTo(TextChars, MaxSource)
    \cup SeqsUpTo(WordChars, MaxSource)
    \cup SeqsUpTo(OtherChars, MaxSource - 1)

LexInit ==
    /\ \E source_code \in Sources : lexer = Lexer(source_code)
    /\ pc = "constructed"
    /\ result = None
    /\ parser = None
    /\ ast = None
    /\ root = NotCalled
    /\ builtins = None
    /\ errors = <<>>
    /\ symbol_table = None
    /\ collector_table = None
    /\ checker_errors = <<>>
    /\ todo = <<>>

LexNext ==
    \/ \E entry \in LexCalls : call_tokenize(entry)
    \/ tokenize_break
    \/ tokenize_newline
    \/ tokenize_comment
    \/ tokenize_string
    \/ tokenize_date
    \/ tokenize_annotation
    \/ tokenize_preprocessor
    \/ tokenize_number
    \/ tokenize_identifier
    \/ tokenize_delimiter
    \/ tokenize_operator
    \/ tokenize_unexpected
    \/ tokenize_return

SpecLex == LexInit /\ [][LexNext]_vars

\* tokenize() runs to its return or its raise once called: the steps of the
\* main loop are the only ones the fairness covers, no client has to call
tokenize_loop ==
    \/ tokenize_break
    \/ tokenize_newline
    \/ tokenize_comment
    \/ tokenize_string
    \/ tokenize_date
    \/ tokenize_annotation
    \/ tokenize_preprocessor
    \/ tokenize_number
    \/ tokenize_identifier
    \/ tokenize_delimiter
    \/ tokenize_operator
    \/ tokenize_unexpected
    \/ tokenize_return

\* before the client has made its lexer
LexRunInit ==
    /\ lexer = None
    /\ pc = "start"
    /\ result = None
    /\ parser = None
    /\ ast = None
    /\ root = NotCalled
    /\ builtins = None
    /\ errors = <<>>
    /\ symbol_table = None
    /\ collector_table = None
    /\ checker_errors = <<>>
    /\ todo = <<>>

\* the client makes its lexer: Lexer(source_code)
new_Lexer(source_code) ==
    /\ pc = "start"
    /\ lexer' = Lexer(source_code)
    /\ pc' = "constructed"
    /\ UNCHANGED result
    /\ LexFrame

LexRunNext ==
    \/ \E source_code \in Sources : new_Lexer(source_code)
    \/ LexNext

SpecLexRun == LexRunInit /\ [][LexRunNext]_vars /\ WF_vars(tokenize_loop)

-----------------------------------------------------------------------------
(* The parser (syntax/parser/parser.py).  The statement level (the module   *)
(* loop, the blocks and the compound statements) is a machine with the      *)
(* calls in progress on the stack todo, one step per iteration of a         *)
(* statement loop; expressions, declarations and routine headers are        *)
(* operators evaluated within a step.  A parsing method's outcome is the    *)
(* parser after it and its value, or the ParserError it raised.             *)

\* ParserError(message, token); the message is its fixed text and the text
\* the f-string puts into it
ParserError(message, detail, token) ==
    [type |-> "ParserError", message |-> <<message, detail>>, token |-> token]

\* Operator precedence (higher number = higher precedence)
PRECEDENCE ==
    (<<"I", "L", "I">> :> 1)
    @@ (<<"I">> :> 2)
    @@ (<<"N", "E">> :> 3)
    @@ (<<"=">> :> 4)
    @@ (<<"<", ">">> :> 4)
    @@ (<<"<">> :> 4)
    @@ (<<">">> :> 4)
    @@ (<<"<", "=">> :> 4)
    @@ (<<">", "=">> :> 4)
    @@ (<<"+">> :> 5)
    @@ (<<"-">> :> 5)
    @@ (<<"*">> :> 6)
    @@ (<<"/">> :> 6)
    @@ (<<"%">> :> 6)

\* the text of an annotation as current_annotation and a routine's
\* annotation hold it (a str, where None is the other value)
Annotation(value) == [type |-> "str", value |-> value]

\* Parser.__init__
Parser(tokens) ==
    [tokens |-> tokens, current |-> 0, current_annotation |-> None]

peek(p, offset) ==
    LET pos == p.current + offset
    IN  IF pos >= Len(p.tokens) THEN p.tokens[Len(p.tokens)]
        ELSE p.tokens[pos + 1]

\* the parser after advance(); the token advance() returns is peek(p, 0)
Parser_advance(p) ==
    IF peek(p, 0).type # "EOF" THEN [p EXCEPT !.current = @ + 1] ELSE p

match(p, token_types) == peek(p, 0).type \in token_types

RECURSIVE skip_newlines(_)
skip_newlines(p) ==
    IF match(p, {"NEWLINE", "COMMENT"}) THEN skip_newlines(Parser_advance(p))
    ELSE p

\* a method returned value, leaving the parser p
Ok(p, value) == [parser |-> p, value |-> value, error |-> None]

\* a method raised error
Err(p, error) == [parser |-> p, value |-> None, error |-> error]

\* x0, evaluated once, handed to F
With(x0, F(_)) == Only({F(x) : x \in {x0}})

\* the statements after a call: they run on its outcome unless it raised
Then(r0, F(_)) == With(r0, LAMBDA r : IF r.error # None THEN r ELSE F(r))

\* the value is the token consumed; every call of the parser leaves the
\* message to the default
expect(p, token_type) ==
    LET token == peek(p, 0)
    IN  IF token.type # token_type
        THEN Err(p, ParserError("Expected", <<token_type, token.type>>, token))
        ELSE Ok(Parser_advance(p), token)

\* the token types whose name starts with OP_
OpTypes == {OPERATORS[o] : o \in DOMAIN OPERATORS}

\* Python's None or '' for an operator
NoOperator == <<>>

\* canonical form for keywords (I, ILI), original value for operators
OperatorOf(op_token) ==
    IF op_token.type = "KEYWORD_AND" THEN <<"I">>
    ELSE IF op_token.type = "KEYWORD_OR" THEN <<"I", "L", "I">>
    ELSE IF op_token.type \in OpTypes THEN op_token.value
    ELSE NoOperator

\* BinaryOpNode(left=, operator=, right=, line=, column=)
BinaryOp(left, operator, right, token) ==
    [BinaryOpNode(left, right, token.line, token.column)
     EXCEPT !.operator = operator]

UnaryOp(operator, operand, token) ==
    [UnaryOpNode(operand, token.line, token.column)
     EXCEPT !.operator = operator]

Literal(value, literal_type, token) ==
    [LiteralNode(token.line, token.column)
     EXCEPT !.value = value, !.literal_type = literal_type]

DigitValue(char) ==
    CASE char = "0" -> 0
      [] char = "1" -> 1
      [] char = "2" -> 2

\* int(token.value), and float(token.value) when that raises ValueError:
\* the float is kept as its digits
RECURSIVE IntOf(_, _)
IntOf(value, n) ==
    IF value = <<>> THEN n
    ELSE IntOf(Tail(value), 10 * n + DigitValue(Head(value)))

NumberOf(value) ==
    IF \A i \in DOMAIN value : value[i] \in {"0", "1", "2"}
    THEN IntOf(value, 0)
    ELSE [float |-> value]

RECURSIVE parse_binary_expression(_, _)
RECURSIVE BinaryLoop(_, _, _)
RECURSIVE parse_unary_expression(_)
RECURSIVE parse_postfix_expression(_)
RECURSIVE PostfixLoop(_, _)
RECURSIVE parse_primary_expression(_)
RECURSIVE parse_ternary_expression(_)
RECURSIVE parse_new_expression(_)
RECURSIVE parse_arguments(_)
RECURSIVE ArgumentsLoop(_, _)

\* the minimum precedence of a right operand, which makes the operators
\* left-associative
RightOperandAtSamePrecedence(precedence) == precedence

RightOperandPrecedence(precedence) == precedence + 1

\* Parse an expression with operator precedence
parse_expression(p) == parse_binary_expression(p, 0)

\* Parse binary expression using precedence climbing
parse_binary_expression(p, min_precedence) ==
    Then(parse_unary_expression(p), LAMBDA l :
         BinaryLoop(l.parser, l.value, min_precedence))

\* the `while True` loop of parse_binary_expression
BinaryLoop(p0, left0, min_precedence) ==
    With(<<skip_newlines(p0), left0>>, LAMBDA v :
    LET p == v[1]
        left == v[2]
        op_token == peek(p, 0)
        operator == OperatorOf(op_token)
    IN  IF operator = NoOperator \/ operator \notin DOMAIN PRECEDENCE
        THEN Ok(p, left)
        ELSE IF PRECEDENCE[operator] < min_precedence
        THEN Ok(p, left)
        ELSE Then(parse_binary_expression(
                      skip_newlines(Parser_advance(p)),
                      RightOperandPrecedence(PRECEDENCE[operator])),
                  LAMBDA r :
                  BinaryLoop(r.parser,
                             BinaryOp(left, operator, r.value, op_token),
                             min_precedence)))

\* unary = ("NE" | "-") unary | postfix
parse_unary_expression(p) ==
    LET token == peek(p, 0)
    IN  IF match(p, {"KEYWORD_NOT"})
        THEN Then(parse_unary_expression(Parser_advance(p)), LAMBDA r :
                  Ok(r.parser, UnaryOp(<<"N", "E">>, r.value, token)))
        ELSE IF match(p, {"OP_MINUS"})
        THEN Then(parse_unary_expression(Parser_advance(p)), LAMBDA r :
                  Ok(r.parser, UnaryOp(<<"-">>, r.value, token)))
        ELSE parse_postfix_expression(p)

\* postfix = primary ("." identifier | "(" args ")" | "[" expression "]")*
parse_postfix_expression(p) ==
    Then(parse_primary_expression(p), LAMBDA r :
         PostfixLoop(r.parser, r.value))

\* the `while True` loop of parse_postfix_expression
PostfixLoop(p0, expr0) ==
    With(<<p0, expr0>>, LAMBDA v :
    LET p == v[1]
        expr == v[2]
        token == peek(p, 0)
    IN  IF match(p, {"DELIMITER_DOT"})
        THEN Then(expect(Parser_advance(p), "IDENTIFIER"), LAMBDA m :
                  PostfixLoop(m.parser,
                              MemberAccessNode(expr, m.value.value,
                                               token.line, token.column)))
        ELSE IF match(p, {"DELIMITER_LPAREN"})
        THEN Then(IF match(Parser_advance(p), {"DELIMITER_RPAREN"})
                  THEN Ok(Parser_advance(p), <<>>)
                  ELSE parse_arguments(Parser_advance(p)),
                  LAMBDA a :
             Then(expect(a.parser, "DELIMITER_RPAREN"), LAMBDA e :
                  PostfixLoop(e.parser,
                              CallNode(expr, a.value,
                                       token.line, token.column))))
        ELSE IF match(p, {"DELIMITER_LBRACKET"})
        THEN Then(parse_expression(Parser_advance(p)), LAMBDA i :
             Then(expect(i.parser, "DELIMITER_RBRACKET"), LAMBDA e :
                  PostfixLoop(e.parser,
                              IndexAccessNode(expr, i.value,
                                              token.line, token.column))))
        ELSE Ok(p, expr))

\* primary = literal | identifier | "Novyj" type_name "(" args ")"
\*         | "(" expression ")" | "?" "(" args ")"
parse_primary_expression(p) ==
    LET token == peek(p, 0)
        after == Parser_advance(p)
    IN  IF match(p, {"OP_TERNARY"}) THEN parse_ternary_expression(p)
        ELSE IF match(p, {"DELIMITER_LPAREN"})
        THEN Then(parse_expression(after), LAMBDA r :
             Then(expect(r.parser, "DELIMITER_RPAREN"), LAMBDA e :
                  Ok(e.parser, r.value)))
        ELSE IF match(p, {"LITERAL_STRING"})
        THEN Ok(after, Literal(token.value, "string", token))
        ELSE IF match(p, {"LITERAL_NUMBER"})
        THEN Ok(after, Literal(NumberOf(token.value), "number", token))
        ELSE IF match(p, {"LITERAL_DATE"})
        THEN Ok(after, Literal(token.value, "date", token))
        ELSE IF match(p, {"KEYWORD_TRUE"})
        THEN Ok(after, Literal(TRUE, "boolean", token))
        ELSE IF match(p, {"KEYWORD_FALSE"})
        THEN Ok(after, Literal(FALSE, "boolean", token))
        ELSE IF match(p, {"KEYWORD_UNDEFINED"})
        THEN Ok(after, Literal(None, "undefined", token))
        ELSE IF match(p, {"KEYWORD_NEW"}) THEN parse_new_expression(p)
        ELSE IF match(p, {"IDENTIFIER"})
        THEN Ok(after, IdentifierNode(token.value, token.line, token.column))
        ELSE Err(p, ParserError("Unexpected token in expression",
                                token.value, token))

\* ternary = "?" "(" expression "," expression "," expression ")"
parse_ternary_expression(p) ==
    Then(expect(p, "OP_TERNARY"), LAMBDA t :
    Then(expect(t.parser, "DELIMITER_LPAREN"), LAMBDA l :
    Then(parse_expression(l.parser), LAMBDA condition :
    Then(expect(condition.parser, "DELIMITER_COMMA"), LAMBDA c1 :
    Then(parse_expression(skip_newlines(c1.parser)), LAMBDA true_value :
    Then(expect(true_value.parser, "DELIMITER_COMMA"), LAMBDA c2 :
    Then(parse_expression(skip_newlines(c2.parser)), LAMBDA false_value :
    Then(expect(false_value.parser, "DELIMITER_RPAREN"), LAMBDA e :
         Ok(e.parser,
            TernaryNode(condition.value, true_value.value, false_value.value,
                        t.value.line, t.value.column))))))))))

\* new = "Novyj" type_name ("(" args ")")?
parse_new_expression(p) ==
    Then(expect(p, "KEYWORD_NEW"), LAMBDA t :
    Then(expect(t.parser, "IDENTIFIER"), LAMBDA type_token :
    Then(IF match(type_token.parser, {"DELIMITER_LPAREN"})
         THEN Then(IF match(Parser_advance(type_token.parser),
                            {"DELIMITER_RPAREN"})
                   THEN Ok(Parser_advance(type_token.parser), <<>>)
                   ELSE parse_arguments(Parser_advance(type_token.parser)),
                   LAMBDA a :
              Then(expect(a.parser, "DELIMITER_RPAREN"), LAMBDA e :
                   Ok(e.parser, a.value)))
         ELSE Ok(type_token.parser, <<>>),
         LAMBDA arguments :
         Ok(arguments.parser,
            NewNode(type_token.value.value, arguments.value,
                    t.value.line, t.value.column)))))

\* arguments = expression ("," expression)*
parse_arguments(p) ==
    Then(parse_expression(p), LAMBDA first :
         ArgumentsLoop(first.parser, <<first.value>>))

ArgumentsLoop(p0, args0) ==
    With(<<p0, args0>>, LAMBDA v :
    LET p == v[1]
        args == v[2]
    IN  IF match(p, {"DELIMITER_COMMA"})
        THEN Then(parse_expression(skip_newlines(Parser_advance(p))),
                  LAMBDA r : ArgumentsLoop(r.parser, Append(args, r.value)))
        ELSE Ok(p, args))

\* var_declaration = "Perem" identifier ("," identifier)* ";"
RECURSIVE VarNamesLoop(_, _)
VarNamesLoop(p0, names0) ==
    With(<<p0, names0>>, LAMBDA v :
    LET p == v[1]
        names == v[2]
    IN  IF match(p, {"DELIMITER_COMMA"})
        THEN Then(expect(skip_newlines(Parser_advance(p)), "IDENTIFIER"),
                  LAMBDA n : VarNamesLoop(n.parser, Append(names, n.value.value)))
        ELSE Ok(p, names))

parse_var_declaration(p) ==
    Then(expect(p, "KEYWORD_VAR"), LAMBDA t :
    Then(expect(t.parser, "IDENTIFIER"), LAMBDA n :
    Then(VarNamesLoop(n.parser, <<n.value.value>>), LAMBDA names :
    Then(expect(names.parser, "DELIMITER_SEMICOLON"), LAMBDA e :
         Ok(e.parser,
            VarDeclarationNode(names.value, t.value.line, t.value.column))))))

\* parameter = ("Znach")? identifier ("=" expression)?
Parameter(p0) ==
    With(p0, LAMBDA p :
    LET by_val == match(p, {"KEYWORD_VAL"})
    IN  Then(expect(IF by_val THEN Parser_advance(p) ELSE p, "IDENTIFIER"),
             LAMBDA n :
        Then(IF match(n.parser, {"OP_ASSIGN"})
             THEN parse_expression(Parser_advance(n.parser))
             ELSE Ok(n.parser, None),
             LAMBDA d :
             Ok(d.parser,
                [ParameterNode(n.value.value, n.value.line, n.value.column)
                 EXCEPT !.by_val = by_val, !.default_value = d.value]))))

RECURSIVE ParametersLoop(_, _)
ParametersLoop(p0, parameters0) ==
    With(<<p0, parameters0>>, LAMBDA v :
    LET p == v[1]
        parameters == v[2]
    IN  IF match(p, {"DELIMITER_COMMA"})
        THEN Then(Parameter(skip_newlines(Parser_advance(p))), LAMBDA r :
                  ParametersLoop(r.parser, Append(parameters, r.value)))
        ELSE Ok(p, parameters))

\* parameters = parameter ("," parameter)*
parse_parameters(p) ==
    Then(Parameter(p), LAMBDA first :
         ParametersLoop(first.parser, <<first.value>>))

\* a routine node as the parser builds it
Routine(node, is_export) ==
    node @@ [is_export |-> is_export, is_async |-> FALSE, annotation |-> None]

\* parse_function and parse_procedure up to the body: keyword, name,
\* "(" parameters? ")", ("Eksport")?; the value is the node without its body
RoutineHeader(p, keyword) ==
    Then(expect(p, keyword), LAMBDA t :
    Then(expect(t.parser, "IDENTIFIER"), LAMBDA n :
    Then(expect(n.parser, "DELIMITER_LPAREN"), LAMBDA l :
    Then(IF match(l.parser, {"DELIMITER_RPAREN"})
         THEN Ok(l.parser, <<>>)
         ELSE parse_parameters(l.parser),
         LAMBDA parameters :
    Then(expect(parameters.parser, "DELIMITER_RPAREN"), LAMBDA r :
         LET is_export == match(r.parser, {"KEYWORD_EXPORT"})
             node == IF keyword = "KEYWORD_FUNCTION"
                     THEN FunctionNode(n.value.value, parameters.value, <<>>,
                                       t.value.line, t.value.column)
                     ELSE ProcedureNode(n.value.value, parameters.value, <<>>,
                                        t.value.line, t.value.column)
         IN  Ok(skip_newlines(IF is_export THEN Parser_advance(r.parser)
                              ELSE r.parser),
                Routine(node, is_export)))))))

\* return_stmt = "Vozvrat" expression? ";"
parse_return_statement(p) ==
    Then(expect(p, "KEYWORD_RETURN"), LAMBDA t :
    Then(IF match(t.parser, {"DELIMITER_SEMICOLON"})
         THEN Ok(t.parser, None)
         ELSE parse_expression(t.parser),
         LAMBDA value :
    Then(expect(value.parser, "DELIMITER_SEMICOLON"), LAMBDA e :
         Ok(e.parser, ReturnNode(value.value, t.value.line, t.value.column)))))

\* await_stmt = "Zhdat" expression ";"
parse_await_statement(p) ==
    Then(expect(p, "KEYWORD_AWAIT"), LAMBDA t :
    Then(parse_expression(t.parser), LAMBDA expression :
    Then(expect(expression.parser, "DELIMITER_SEMICOLON"), LAMBDA e :
         Ok(e.parser,
            AwaitNode(expression.value, t.value.line, t.value.column)))))

\* raise_stmt = "VyzvatIsklyuchenie" expression? ";"
parse_raise_statement(p) ==
    Then(expect(p, "KEYWORD_RAISE"), LAMBDA t :
    Then(IF match(t.parser, {"DELIMITER_SEMICOLON"})
         THEN Ok(t.parser, None)
         ELSE parse_expression(t.parser),
         LAMBDA expression :
    Then(expect(expression.parser, "DELIMITER_SEMICOLON"), LAMBDA e :
         Ok(e.parser,
            RaiseNode(expression.value, t.value.line, t.value.column)))))

\* the `while True` loop of parse_expression_or_assignment: the climbing
\* loop again, from the postfix expression already parsed
RECURSIVE StatementLoop(_, _)
StatementLoop(p0, left0) ==
    With(<<p0, left0>>, LAMBDA v :
    LET p == v[1]
        left == v[2]
        op_token == peek(p, 0)
        operator == OperatorOf(op_token)
    IN  IF operator = NoOperator \/ operator \notin DOMAIN PRECEDENCE
        THEN Ok(p, left)
        ELSE Then(parse_binary_expression(
                      Parser_advance(p),
                      RightOperandPrecedence(PRECEDENCE[operator])),
                  LAMBDA r :
                  StatementLoop(r.parser,
                                BinaryOp(left, operator, r.value, op_token))))

\* assignment = lvalue "=" expression ";"     expr_stmt = expression ";"
parse_expression_or_assignment(p) ==
    Then(parse_postfix_expression(p), LAMBDA x :
         IF match(x.parser, {"OP_ASSIGN"})
         THEN Then(parse_expression(Parser_advance(x.parser)), LAMBDA value :
              Then(expect(value.parser, "DELIMITER_SEMICOLON"), LAMBDA e :
                   Ok(e.parser,
                      AssignmentNode(x.value, value.value,
                                     x.value.line, x.value.column))))
         ELSE LET token == peek(x.parser, 0)
              IN  Then(IF \/ token.value \in DOMAIN PRECEDENCE
                          \/ token.type \in {"KEYWORD_AND", "KEYWORD_OR"}
                       THEN StatementLoop(x.parser, x.value)
                       ELSE Ok(x.parser, x.value),
                       LAMBDA expr :
                  Then(expect(expr.parser, "DELIMITER_SEMICOLON"), LAMBDA e :
                       Ok(e.parser,
                          ExpressionStatementNode(expr.value, expr.value.line,
                                                  expr.value.column)))))

\* the token types at which parse_statement starts a statement with blocks
CompoundStarts ==
    {"KEYWORD_IF", "KEYWORD_WHILE", "KEYWORD_FOR", "KEYWORD_TRY"}

\* parse_statement for the statements without blocks
SimpleStatement(p0) ==
    With(skip_newlines(p0), LAMBDA p :
    LET token == peek(p, 0)
    IN  IF match(p, {"KEYWORD_VAR"}) THEN parse_var_declaration(p)
        ELSE IF match(p, {"KEYWORD_RETURN"}) THEN parse_return_statement(p)
        ELSE IF match(p, {"KEYWORD_BREAK"})
        THEN Then(expect(Parser_advance(p), "DELIMITER_SEMICOLON"), LAMBDA e :
                  Ok(e.parser, BreakNode(token.line, token.column)))
        ELSE IF match(p, {"KEYWORD_CONTINUE"})
        THEN Then(expect(Parser_advance(p), "DELIMITER_SEMICOLON"), LAMBDA e :
                  Ok(e.parser, ContinueNode(token.line, token.column)))
        ELSE IF match(p, {"KEYWORD_RAISE"}) THEN parse_raise_statement(p)
        ELSE IF match(p, {"KEYWORD_AWAIT"}) THEN parse_await_statement(p)
        ELSE parse_expression_or_assignment(p))

\* parse_if_statement up to the then body: "Esli" expression "Togda"
IfHeader(p) ==
    Then(expect(p, "KEYWORD_IF"), LAMBDA t :
    Then(parse_expression(t.parser), LAMBDA condition :
    Then(expect(condition.parser, "KEYWORD_THEN"), LAMBDA e :
         Ok(skip_newlines(e.parser),
            IfNode(condition.value, <<>>, <<>>, <<>>,
                   t.value.line, t.value.column)))))

\* parse_while_statement up to the body: "Poka" expression "Cikl"
WhileHeader(p) ==
    Then(expect(p, "KEYWORD_WHILE"), LAMBDA t :
    Then(parse_expression(t.parser), LAMBDA condition :
    Then(expect(condition.parser, "KEYWORD_CYCLE"), LAMBDA e :
         Ok(skip_newlines(e.parser),
            WhileNode(condition.value, <<>>, t.value.line, t.value.column)))))

\* parse_for_statement up to the body:
\* "Dlya" identifier "=" expression "Po" expression "Cikl", or
\* "Dlya" "Kazhdogo" identifier "Iz" expression "Cikl"
ForHeader(p) ==
    Then(expect(p, "KEYWORD_FOR"), LAMBDA t :
         IF match(t.parser, {"KEYWORD_EACH"})
         THEN Then(expect(Parser_advance(t.parser), "IDENTIFIER"), LAMBDA n :
              Then(expect(n.parser, "KEYWORD_FROM"), LAMBDA f :
              Then(parse_expression(f.parser), LAMBDA collection :
              Then(expect(collection.parser, "KEYWORD_CYCLE"), LAMBDA e :
                   Ok(skip_newlines(e.parser),
                      ForEachNode(n.value.value, collection.value, <<>>,
                                  t.value.line, t.value.column))))))
         ELSE Then(expect(t.parser, "IDENTIFIER"), LAMBDA n :
              Then(expect(n.parser, "OP_ASSIGN"), LAMBDA a :
              Then(parse_expression(a.parser), LAMBDA start :
              Then(expect(start.parser, "KEYWORD_TO"), LAMBDA to :
              Then(parse_expression(to.parser), LAMBDA end :
              Then(expect(end.parser, "KEYWORD_CYCLE"), LAMBDA e :
                   Ok(skip_newlines(e.parser),
                      ForNode(n.value.value, start.value, end.value, <<>>,
                              t.value.line, t.value.column)))))))))

\* parse_try_statement up to the try body: "Popytka"
TryHeader(p) ==
    Then(expect(p, "KEYWORD_TRY"), LAMBDA t :
         Ok(skip_newlines(t.parser),
            TryNode(<<>>, <<>>, t.value.line, t.value.column)))

-----------------------------------------------------------------------------
(* parse(): the statement level, one step per loop iteration.  todo holds   *)
(* the calls in progress, innermost first: parse_module, the try block of   *)
(* parse_module around a module-level statement, parse_function or          *)
(* parse_procedure, a compound statement, parse_statement_block.            *)

ModuleFrame(node) == [op |-> "parse_module", node |-> node]

\* the try block of parse_module; token is the statement's first token
TryFrame(token) == [op |-> "try", token |-> token]

\* a parse_function, parse_procedure or compound statement that waits for a
\* block; branch tells which of its blocks
CallFrame(op, node, branch) == [op |-> op, node |-> node, branch |-> branch]

\* parse_statement_block(*end_tokens) with the statements read so far
BlockFrame(end_tokens) ==
    [op |-> "parse_statement_block", end_tokens |-> end_tokens,
     statements |-> <<>>]

ParserFrame ==
    UNCHANGED <<lexer, ast, root, builtins, errors, symbol_table,
                collector_table, checker_errors>>

\* the error that leaves parse(): parse_module's handler replaces an error
\* raised within a module-level statement by one that carries the
\* statement's first token
Raised(error, stack) ==
    LET at == {i \in DOMAIN stack : stack[i].op = "try"}
    IN  IF at # {}
        THEN ParserError("Unexpected token at module level",
                         stack[Only(at)].token.value, stack[Only(at)].token)
        ELSE error

\* the step ends as the outcome says: the error leaves parse(), or the
\* parser goes on with the stack the outcome holds
Resume(o, stack) ==
    /\ \E r \in {o} :
           IF r.error # None
           THEN /\ pc' = "raised"
                /\ result' = Raised(r.error, stack)
                /\ parser' = r.parser
                /\ todo' = <<>>
           ELSE /\ parser' = r.parser
                /\ todo' = r.value
                /\ UNCHANGED <<pc, result>>
    /\ ParserFrame

\* a statement is complete: parse_statement_block appends it, or
\* parse_module does and leaves its try block; both skip newlines next
Delivered(p, stack, node) ==
    IF Head(stack).op = "parse_statement_block"
    THEN Ok(skip_newlines(p),
            <<[Head(stack) EXCEPT !.statements = Append(@, node)]>>
            \o Tail(stack))
    ELSE Ok(skip_newlines(p),
            <<[stack[2] EXCEPT !.node.statements = Append(@, node)]>>
            \o Tail(Tail(stack)))

\* a caller hands a token list to Parser(tokens).parse()
call_parse ==
    /\ pc = "constructed"
    /\ pc' = "parse"
    /\ parser' = skip_newlines(parser)
    /\ todo' = <<ModuleFrame(ModuleNode(<<>>, <<>>, <<>>, <<>>))>>
    /\ UNCHANGED result
    /\ ParserFrame

\* the loop of parse_module is at its test
AtModule == pc = "parse" /\ todo # <<>> /\ Head(todo).op = "parse_module"

\* the loop of parse_statement_block is at its test
AtBlock ==
    pc = "parse" /\ todo # <<>> /\ Head(todo).op = "parse_statement_block"

\* `while not self.match(TokenType.EOF)` ends, or the statement branch
\* breaks at EOF: return module
parse_module_return ==
    /\ AtModule
    /\ match(parser, {"EOF"})
    /\ pc' = "returned"
    /\ result' = Head(todo).node
    /\ todo' = <<>>
    /\ UNCHANGED parser
    /\ ParserFrame

parse_module_annotation ==
    /\ AtModule
    /\ match(parser, {"ANNOTATION"})
    /\ parser' = skip_newlines(
                     [Parser_advance(parser)
                      EXCEPT !.current_annotation =
                                 Annotation(peek(parser, 0).value)])
    /\ UNCHANGED <<todo, pc, result>>
    /\ ParserFrame

parse_module_var ==
    /\ AtModule
    /\ match(parser, {"KEYWORD_VAR"})
    /\ Resume(Then(parse_var_declaration(parser), LAMBDA r :
                   Ok(skip_newlines([r.parser
                                     EXCEPT !.current_annotation = None]),
                      <<[Head(todo) EXCEPT !.node.var_declarations =
                             Append(@, r.value)]>>)),
              todo)

\* parse_function or parse_procedure reaches its body
Opened(p, keyword, is_async) ==
    Then(RoutineHeader(p, keyword), LAMBDA r :
         Ok(skip_newlines(r.parser),
            <<BlockFrame({IF keyword = "KEYWORD_FUNCTION"
                          THEN "KEYWORD_END_FUNCTION"
                          ELSE "KEYWORD_END_PROCEDURE"}),
              CallFrame(IF keyword = "KEYWORD_FUNCTION"
                        THEN "parse_function" ELSE "parse_procedure",
                        [r.value EXCEPT !.is_async = is_async], "body")>>
            \o todo))

\* "Asinh" then a function or a procedure; is_async is set when the routine
\* is complete
parse_module_async ==
    /\ AtModule
    /\ match(parser, {"KEYWORD_ASYNC"})
    /\ Resume(With(skip_newlines(Parser_advance(parser)), LAMBDA p :
                   IF match(p, {"KEYWORD_FUNCTION"})
                   THEN Opened(p, "KEYWORD_FUNCTION", TRUE)
                   ELSE IF match(p, {"KEYWORD_PROCEDURE"})
                   THEN Opened(p, "KEYWORD_PROCEDURE", TRUE)
                   ELSE Err(p, ParserError(
                                   "Expected Funkciya or Procedura after Asinh",
                                   <<>>, peek(p, 0)))),
              todo)

parse_module_function ==
    /\ AtModule
    /\ match(parser, {"KEYWORD_FUNCTION"})
    /\ Resume(Opened(parser, "KEYWORD_FUNCTION", FALSE), todo)

parse_module_procedure ==
    /\ AtModule
    /\ match(parser, {"KEYWORD_PROCEDURE"})
    /\ Resume(Opened(parser, "KEYWORD_PROCEDURE", FALSE), todo)

\* a preprocessor directive that is looked at and not consumed
PreprocessorKept ==
    /\ AtModule
    /\ match(parser, {"PREPROCESSOR_IF", "PREPROCESSOR_ELSE",
                      "PREPROCESSOR_ENDIF"})
    /\ parser' = skip_newlines(parser)
    /\ UNCHANGED <<todo, pc, result>>
    /\ ParserFrame

\* Preprocessor directives (just skip for now)
parse_module_preprocessor ==
    /\ AtModule
    /\ match(parser, {"PREPROCESSOR_IF", "PREPROCESSOR_ELSE",
                      "PREPROCESSOR_ENDIF"})
    /\ parser' = skip_newlines(Parser_advance(parser))
    /\ UNCHANGED <<todo, pc, result>>
    /\ ParserFrame

\* the token types parse_module handles itself
ModuleStarts ==
    {"ANNOTATION", "KEYWORD_VAR", "KEYWORD_ASYNC", "KEYWORD_FUNCTION",
     "KEYWORD_PROCEDURE", "PREPROCESSOR_IF", "PREPROCESSOR_ELSE",
     "PREPROCESSOR_ENDIF", "EOF"}

\* parse_statement is called: by parse_module's last branch, within its try
\* block, or by parse_statement_block
AtStatement ==
    \/ AtModule /\ ~match(parser, ModuleStarts)
    \/ AtBlock /\ ~match(parser, Head(todo).end_tokens \cup {"EOF"})

\* the calls in progress when parse_statement runs
StatementStack ==
    IF Head(todo).op = "parse_module"
    THEN <<TryFrame(peek(parser, 0))>> \o todo
    ELSE todo

\* parse_statement as it would be if a block skipped an annotation or a
\* preprocessor directive as parse_module does
StatementSkippingDirectives ==
    /\ AtStatement
    /\ ~match(parser, CompoundStarts)
    /\ IF match(parser, {"ANNOTATION", "PREPROCESSOR_IF", "PREPROCESSOR_ELSE",
                         "PREPROCESSOR_ENDIF"})
       THEN /\ parser' = skip_newlines(Parser_advance(parser))
            /\ UNCHANGED <<todo, pc, result>>
            /\ ParserFrame
       ELSE Resume(Then(SimpleStatement(parser), LAMBDA r :
                        Delivered(r.parser, StatementStack, r.value)),
                   StatementStack)

\* a statement without blocks
parse_statement ==
    /\ AtStatement
    /\ ~match(parser, CompoundStarts)
    /\ Resume(Then(SimpleStatement(parser), LAMBDA r :
                   Delivered(r.parser, StatementStack, r.value)),
              StatementStack)

\* a compound statement reaches its first block
CompoundOpened(header, op, branch, end_tokens) ==
    Then(header, LAMBDA r :
         Ok(skip_newlines(r.parser),
            <<BlockFrame(end_tokens), CallFrame(op, r.value, branch)>>
            \o StatementStack))

IfEnds == {"KEYWORD_ELSE_IF", "KEYWORD_ELSE", "KEYWORD_END_IF"}

parse_if_statement ==
    /\ AtStatement
    /\ match(parser, {"KEYWORD_IF"})
    /\ Resume(CompoundOpened(IfHeader(parser), "parse_if_statement", "then", IfEnds),
              StatementStack)

parse_while_statement ==
    /\ AtStatement
    /\ match(parser, {"KEYWORD_WHILE"})
    /\ Resume(CompoundOpened(WhileHeader(parser), "parse_while_statement", "body",
                       {"KEYWORD_END_CYCLE"}),
              StatementStack)

parse_for_statement ==
    /\ AtStatement
    /\ match(parser, {"KEYWORD_FOR"})
    /\ Resume(CompoundOpened(ForHeader(parser), "parse_for_statement", "body",
                       {"KEYWORD_END_CYCLE"}),
              StatementStack)

parse_try_statement ==
    /\ AtStatement
    /\ match(parser, {"KEYWORD_TRY"})
    /\ Resume(CompoundOpened(TryHeader(parser), "parse_try_statement", "try",
                       {"KEYWORD_EXCEPTION"}),
              StatementStack)

\* parse_statement_block returns to the call of the given methods
BlockEnds(ops) ==
    /\ AtBlock
    /\ match(parser, Head(todo).end_tokens \cup {"EOF"})
    /\ todo[2].op \in ops

\* the routine's body is read: expect its end keyword, and parse_module
\* appends the routine, with the annotation seen before it
RoutineEnd(end_keyword, field) ==
    Then(expect(parser, end_keyword), LAMBDA e :
         LET node == [todo[2].node
                      EXCEPT !.body = todo[1].statements,
                             !.annotation = e.parser.current_annotation]
         IN  Ok(skip_newlines([e.parser EXCEPT !.current_annotation = None]),
                <<[todo[3] EXCEPT !.node[field] = Append(@, node)]>>))

parse_function_end ==
    /\ BlockEnds({"parse_function"})
    /\ Resume(RoutineEnd("KEYWORD_END_FUNCTION", "functions"), todo)

parse_procedure_end ==
    /\ BlockEnds({"parse_procedure"})
    /\ Resume(RoutineEnd("KEYWORD_END_PROCEDURE", "procedures"), todo)

\* the statement's closing keyword and ";" are expected, and the statement
\* is complete
StatementEnd(p, end_keyword, node) ==
    Then(expect(p, end_keyword), LAMBDA k :
    Then(expect(k.parser, "DELIMITER_SEMICOLON"), LAMBDA e :
         Delivered(e.parser, Tail(Tail(todo)), node)))

\* a block of an if statement is read: the elif loop goes on, the else
\* branch starts, or the statement ends
parse_if_branch_end ==
    /\ BlockEnds({"parse_if_statement"})
    /\ Resume(
           LET frame == todo[2]
               body == todo[1].statements
               node == IF frame.branch = "then"
                       THEN [frame.node EXCEPT !.then_body = body]
                       ELSE IF frame.branch = "else"
                       THEN [frame.node EXCEPT !.else_body = body]
                       ELSE [frame.node EXCEPT !.elif_branches =
                                 Append(@, <<frame.condition, body>>)]
               rest == Tail(Tail(todo))
           IN  IF frame.branch # "else" /\ match(parser, {"KEYWORD_ELSE_IF"})
               THEN Then(parse_expression(Parser_advance(parser)), LAMBDA c :
                    Then(expect(c.parser, "KEYWORD_THEN"), LAMBDA e :
                         Ok(skip_newlines(e.parser),
                            <<BlockFrame(IfEnds),
                              CallFrame("parse_if_statement", node, "elif")
                              @@ [condition |-> c.value]>>
                            \o rest)))
               ELSE IF frame.branch # "else" /\ match(parser, {"KEYWORD_ELSE"})
               THEN Ok(skip_newlines(Parser_advance(parser)),
                       <<BlockFrame({"KEYWORD_END_IF"}),
                         CallFrame("parse_if_statement", node, "else")>>
                       \o rest)
               ELSE StatementEnd(parser, "KEYWORD_END_IF", node),
           todo)

\* the body of a while, for or for-each loop is read
parse_loop_end ==
    /\ BlockEnds({"parse_while_statement", "parse_for_statement"})
    /\ Resume(StatementEnd(parser, "KEYWORD_END_CYCLE",
                     [todo[2].node EXCEPT !.body = todo[1].statements]),
              todo)

\* a block of a try statement is read: the except block starts, or the
\* statement ends
parse_try_branch_end ==
    /\ BlockEnds({"parse_try_statement"})
    /\ Resume(
           IF todo[2].branch = "try"
           THEN Then(expect(parser, "KEYWORD_EXCEPTION"), LAMBDA e :
                     Ok(skip_newlines(e.parser),
                        <<BlockFrame({"KEYWORD_END_TRY"}),
                          CallFrame("parse_try_statement",
                                    [todo[2].node
                                     EXCEPT !.try_body = todo[1].statements],
                                    "except")>>
                        \o Tail(Tail(todo))))
           ELSE StatementEnd(parser, "KEYWORD_END_TRY",
                       [todo[2].node
                        EXCEPT !.except_body = todo[1].statements]),
           todo)

\* one iteration of a statement loop of the parser
parse_loop ==
    \/ parse_module_return
    \/ parse_module_annotation
    \/ parse_module_var
    \/ parse_module_async
    \/ parse_module_function
    \/ parse_module_procedure
    \/ parse_module_preprocessor
    \/ parse_statement
    \/ parse_if_statement
    \/ parse_while_statement
    \/ parse_for_statement
    \/ parse_try_statement
    \/ parse_function_end
    \/ parse_procedure_end
    \/ parse_if_branch_end
    \/ parse_loop_end
    \/ parse_try_branch_end

-----------------------------------------------------------------------------
(* The token lists parsed.  A list is written as the sequence of its        *)
(* tokens' short names; its tokens sit on line 1, token i at column i, and  *)
(* the EOF token closes it, as in every list tokenize() returns.            *)

\* the longest chain of operands of an expression
MaxOperands == 3

\* the longest sequence of arbitrary tokens
MaxTokens == 4

\* the tokens by short name: token type and value
TokenKinds ==
    ("a" :> <<"IDENTIFIER", <<"a">>>>)
    @@ ("b" :> <<"IDENTIFIER", <<"b">>>>)
    @@ ("c" :> <<"IDENTIFIER", <<"c">>>>)
    @@ ("f" :> <<"IDENTIFIER", <<"f">>>>)
    @@ ("1" :> <<"LITERAL_NUMBER", <<"1">>>>)
    @@ ("s" :> <<"LITERAL_STRING", <<"s">>>>)
    @@ ("d" :> <<"LITERAL_DATE", <<"2">>>>)
    @@ ("+" :> <<"OP_PLUS", <<"+">>>>)
    @@ ("-" :> <<"OP_MINUS", <<"-">>>>)
    @@ ("*" :> <<"OP_MULTIPLY", <<"*">>>>)
    @@ ("=" :> <<"OP_ASSIGN", <<"=">>>>)
    @@ ("<" :> <<"OP_LESS", <<"<">>>>)
    @@ ("?" :> <<"OP_TERNARY", <<"?">>>>)
    @@ ("ILI" :> <<"KEYWORD_OR", <<"I", "L", "I">>>>)
    @@ ("I" :> <<"KEYWORD_AND", <<"I">>>>)
    @@ ("NE" :> <<"KEYWORD_NOT", <<"N", "E">>>>)
    @@ ("(" :> <<"DELIMITER_LPAREN", <<"(">>>>)
    @@ (")" :> <<"DELIMITER_RPAREN", <<")">>>>)
    @@ ("[" :> <<"DELIMITER_LBRACKET", <<"[">>>>)
    @@ ("]" :> <<"DELIMITER_RBRACKET", <<"]">>>>)
    @@ ("." :> <<"DELIMITER_DOT", <<".">>>>)
    @@ ("," :> <<"DELIMITER_COMMA", <<",">>>>)
    @@ (";" :> <<"DELIMITER_SEMICOLON", <<";">>>>)
    @@ ("nl" :> <<"NEWLINE", <<"\\", "n">>>>)
    @@ ("//" :> <<"COMMENT", <<"x">>>>)
    @@ ("&" :> <<"ANNOTATION", <<"S">>>>)
    @@ ("#" :> <<"PREPROCESSOR_IF", <<"#", "E">>>>)
    @@ ("#I" :> <<"PREPROCESSOR_ELSE", <<"#", "I">>>>)
    @@ ("#K" :> <<"PREPROCESSOR_ENDIF", <<"#", "K">>>>)
    @@ ("Perem" :> <<"KEYWORD_VAR", <<"P", "e", "r", "e", "m">>>>)
    @@ ("Funkciya" :> <<"KEYWORD_FUNCTION", <<"F", "u", "n", "k", "c", "i", "y", "a">>>>)
    @@ ("KonecFunkcii" :> <<"KEYWORD_END_FUNCTION", <<"K", "o", "n", "e", "c", "F", "u", "n", "k", "c", "i", "i">>>>)
    @@ ("Procedura" :> <<"KEYWORD_PROCEDURE", <<"P", "r", "o", "c", "e", "d", "u", "r", "a">>>>)
    @@ ("KonecProcedury" :> <<"KEYWORD_END_PROCEDURE", <<"K", "o", "n", "e", "c", "P", "r", "o", "c", "e", "d", "u", "r", "y">>>>)
    @@ ("Asinh" :> <<"KEYWORD_ASYNC", <<"A", "s", "i", "n", "h">>>>)
    @@ ("Eksport" :> <<"KEYWORD_EXPORT", <<"E", "k", "s", "p", "o", "r", "t">>>>)
    @@ ("Znach" :> <<"KEYWORD_VAL", <<"Z", "n", "a", "c", "h">>>>)
    @@ ("Esli" :> <<"KEYWORD_IF", <<"E", "s", "l", "i">>>>)
    @@ ("Togda" :> <<"KEYWORD_THEN", <<"T", "o", "g", "d", "a">>>>)
    @@ ("InacheEsli" :> <<"KEYWORD_ELSE_IF", <<"I", "n", "a", "c", "h", "e", "E", "s", "l", "i">>>>)
    @@ ("Inache" :> <<"KEYWORD_ELSE", <<"I", "n", "a", "c", "h", "e">>>>)
    @@ ("KonecEsli" :> <<"KEYWORD_END_IF", <<"K", "o", "n", "e", "c", "E", "s", "l", "i">>>>)
    @@ ("Poka" :> <<"KEYWORD_WHILE", <<"P", "o", "k", "a">>>>)
    @@ ("Cikl" :> <<"KEYWORD_CYCLE", <<"C", "i", "k", "l">>>>)
    @@ ("KonecCikla" :> <<"KEYWORD_END_CYCLE", <<"K", "o", "n", "e", "c", "C", "i", "k", "l", "a">>>>)
    @@ ("Dlya" :> <<"KEYWORD_FOR", <<"D", "l", "y", "a">>>>)
    @@ ("Kazhdogo" :> <<"KEYWORD_EACH", <<"K", "a", "z", "h", "d", "o", "g", "o">>>>)
    @@ ("Iz" :> <<"KEYWORD_FROM", <<"I", "z">>>>)
    @@ ("Po" :> <<"KEYWORD_TO", <<"P", "o">>>>)
    @@ ("Popytka" :> <<"KEYWORD_TRY", <<"P", "o", "p", "y", "t", "k", "a">>>>)
    @@ ("Isklyuchenie" :> <<"KEYWORD_EXCEPTION", <<"I", "s", "k", "l", "y", "u", "c", "h", "e", "n", "i", "e">>>>)
    @@ ("KonecPopytki" :> <<"KEYWORD_END_TRY", <<"K", "o", "n", "e", "c", "P", "o", "p", "y", "t", "k", "i">>>>)
    @@ ("Vozvrat" :> <<"KEYWORD_RETURN", <<"V", "o", "z", "v", "r", "a", "t">>>>)
    @@ ("Prervat" :> <<"KEYWORD_BREAK", <<"P", "r", "e", "r", "v", "a", "t">>>>)
    @@ ("Prodolzhit" :> <<"KEYWORD_CONTINUE", <<"P", "r", "o", "d", "o", "l", "z", "h", "i", "t">>>>)
    @@ ("VyzvatIsklyuchenie" :> <<"KEYWORD_RAISE", <<"V", "y", "z", "v", "a", "t", "I", "s", "k", "l", "y", "u", "c", "h", "e", "n", "i", "e">>>>)
    @@ ("Zhdat" :> <<"KEYWORD_AWAIT", <<"Z", "h", "d", "a", "t">>>>)
    @@ ("Novyj" :> <<"KEYWORD_NEW", <<"N", "o", "v", "y", "j">>>>)
    @@ ("Istina" :> <<"KEYWORD_TRUE", <<"I", "s", "t", "i", "n", "a">>>>)
    @@ ("Lozh" :> <<"KEYWORD_FALSE", <<"L", "o", "z", "h">>>>)
    @@ ("Neopredeleno" :> <<"KEYWORD_UNDEFINED", <<"N", "e", "o", "p", "r", "e", "d", "e", "l", "e", "n", "o">>>>)

Tokens(names) ==
    [i \in 1..Len(names) + 1 |->
        IF i <= Len(names)
        THEN Token(TokenKinds[names[i]][1], TokenKinds[names[i]][2], 1, i)
        ELSE Token("EOF", <<>>, 1, i)]

\* the binary operators of the chains: one of each precedence, two of one
ChainOps == {"ILI", "I", "=", "+", "-", "*"}

OperandNames == <<"a", "b", "c", "f">>

\* a pair of parentheses around operands i..j, or <<0, 0>> for none
Groups(n) == {<<0, 0>>} \cup {g \in (1..n) \X (1..n) : g[1] <= g[2]}

\* operand i of a chain: bare (0), under NE (1), or under a NE that stands
\* before the parenthesis opened at the operand (2)
Operand(i, pre, group) ==
    LET open == IF group[1] = i THEN <<"(">> ELSE <<>>
        close == IF group[2] = i THEN <<")">> ELSE <<>>
    IN  IF pre = 0 THEN open \o <<OperandNames[i]>> \o close
        ELSE IF pre = 1 THEN open \o <<"NE", OperandNames[i]>> \o close
        ELSE <<"NE">> \o open \o <<OperandNames[i]>> \o close

RECURSIVE Chain(_, _, _, _, _)
\* operands i..n and the operators between them
Chain(i, n, ops, pre, group) ==
    IF i = n THEN Operand(i, pre[i], group)
    ELSE Operand(i, pre[i], group) \o <<ops[i]>>
         \o Chain(i + 1, n, ops, pre, group)

\* the chains of up to max operands
Chains(max) ==
    UNION {{Chain(1, n, ops, pre, group) :
               ops \in [1..n - 1 -> ChainOps], pre \in [1..n -> 0..2],
               group \in Groups(n)} : n \in 1..max}

\* an expression as the value of an assignment and as an expression
\* statement, both at module level, and as the value a function returns
InFunction(names) ==
    <<"Funkciya", "f", "(", ")">> \o names \o <<"KonecFunkcii">>

Expressions(max) ==
    {<<"f", "=">> \o e \o <<";">> : e \in Chains(max)}
    \cup {e \o <<";">> : e \in Chains(max)}
    \cup {InFunction(<<"Vozvrat">> \o e \o <<";">>) : e \in Chains(max)}

\* every short sequence of these tokens, at module level and as the body of
\* a function
ShortNames == {"a", "=", ";", "(", ")", "+", "NE", "nl"}

Short(max) ==
    SeqsUpTo(ShortNames, max)
    \cup {InFunction(s) : s \in SeqsUpTo(ShortNames, max)}

\* modules that use every construct of the grammar
Modules ==
    {<<"&", "nl", "Asinh", "Funkciya", "f", "(", "Znach", "a", ",", "b", "=",
       "1", ")", "Eksport", "nl", "Perem", "c", ",", "a", ";", "//", "nl",
       "Vozvrat", "a", ".", "b", "(", "c", ",", "1", ")", "[", "a", "]", ";",
       "nl", "KonecFunkcii", "nl">>,
     <<"#", "nl", "Perem", "a", ";", "Procedura", "f", "(", ")", "Esli", "a",
       "Togda", "Prervat", ";", "InacheEsli", "b", "Togda", "Prodolzhit", ";",
       "Inache", "VyzvatIsklyuchenie", ";", "KonecEsli", ";",
       "KonecProcedury">>,
     <<"Poka", "a", "Cikl", "Dlya", "b", "=", "1", "Po", "c", "Cikl", "Dlya",
       "Kazhdogo", "a", "Iz", "b", "Cikl", "Zhdat", "a", ";", "KonecCikla",
       ";", "KonecCikla", ";", "KonecCikla", ";">>,
     <<"Popytka", "a", "=", "Novyj", "f", "(", "1", ")", ";", "Isklyuchenie",
       "a", "=", "?", "(", "Istina", ",", "Lozh", ",", "Neopredeleno", ")",
       ";", "KonecPopytki", ";">>,
     <<"Asinh", "Procedura", "f", "(", "a", ")", "a", "(", ")", ";",
       "VyzvatIsklyuchenie", "s", ";", "Vozvrat", ";", "KonecProcedury">>,
     <<"a", "=", "-", "b", "<", "d", ";", "f", "(", ")", "+", "1", ";",
       "Novyj", "f", ";">>,
     <<"Funkciya", "f", "(", ")", "Esli", "a", "Togda", "b", "=", "1", ";",
       "KonecEsli", ";", "KonecFunkcii">>}

\* the list without its token i
Without1(names, i) == SubSeq(names, 1, i - 1) \o SubSeq(names, i + 1, Len(names))

\* the modules, each also with one token missing and cut short
Damaged ==
    Modules
    \cup UNION {{Without1(m, i) : i \in DOMAIN m} : m \in Modules}
    \cup UNION {{SubSeq(m, 1, n) : n \in 0..Len(m)} : m \in Modules}

\* the operators of the expressions that span lines
SpreadOps == {"=", "+", "*"}

RECURSIVE Spread(_, _, _, _)
\* operands i..n and the operators between them, a newline token standing
\* before operator k if before[k] and after it if after[k]
Spread(i, n, ops, nl) ==
    IF i = n THEN <<OperandNames[i]>>
    ELSE <<OperandNames[i]>>
         \o (IF nl[2 * i - 1] THEN <<"nl">> ELSE <<>>)
         \o <<ops[i]>>
         \o (IF nl[2 * i] THEN <<"nl">> ELSE <<>>)
         \o Spread(i + 1, n, ops, nl)

\* expression statements of two and three operands that span lines, at
\* module level and in a function
Continued ==
    UNION {UNION {{e \o <<";">>, InFunction(e \o <<";">>)} :
                     e \in {Spread(1, n, ops, nl) :
                               ops \in [1..n - 1 -> SpreadOps],
                               nl \in [1..2 * (n - 1) -> BOOLEAN]}} :
              n \in 2..3}

\* the annotation and the preprocessor directives
DirectiveNames == {"&", "#", "#I", "#K"}

\* a directive where a statement is expected: first or later in the body of
\* a function or procedure, in the blocks of statements in a function, and
\* in a block of a module-level statement
Misplaced ==
    UNION {{InFunction(<<k, "a", ";">>),
            InFunction(<<"a", ";", "nl", k, "nl">>),
            <<"Procedura", "f", "(", ")", k, "KonecProcedury">>,
            InFunction(<<"Esli", "a", "Togda", k, "KonecEsli", ";">>),
            InFunction(<<"Esli", "a", "Togda", "Inache", k, "KonecEsli",
                         ";">>),
            InFunction(<<"Popytka", "Isklyuchenie", k, "KonecPopytki", ";">>),
            InFunction(<<"Dlya", "Kazhdogo", "a", "Iz", "b", "Cikl", k,
                         "KonecCikla", ";">>),
            <<"Poka", "a", "Cikl", "nl", k, "nl", "KonecCikla", ";">>,
            <<k, "nl", k, "Perem", "a", ";">>} : k \in DirectiveNames}

\* the token lists parse() is given: expressions of up to max_operands
\* operands, sequences of up to max_tokens tokens, expression statements
\* that span lines, misplaced directives, and the modules
Programs(max_operands, max_tokens) ==
    Expressions(max_operands) \cup Short(max_tokens) \cup Continued
    \cup Misplaced \cup Damaged

ParseInit ==
    /\ pc = "constructed"
    /\ parser \in {Parser(Tokens(names)) :
                      names \in Programs(MaxOperands, MaxTokens)}
    /\ result = None
    /\ todo = <<>>
    /\ lexer = None
    /\ root = NotCalled
    /\ ast = None
    /\ builtins = None
    /\ errors = <<>>
    /\ symbol_table = None
    /\ collector_table = None
    /\ checker_errors = <<>>

ParseNext == call_parse \/ parse_loop

SpecParse == ParseInit /\ [][ParseNext]_vars

\* parse() once called runs on; the caller may never call it
SpecParseRun == ParseInit /\ [][ParseNext]_vars /\ WF_vars(parse_loop)

-----------------------------------------------------------------------------
(* What a module declares and references, read off the tree (used to state   *)
(* the properties; the analyzer does not use these).                          *)

Range(seq) == {seq[i] : i \in DOMAIN seq}

\* the routines of a module
Routines(m) == Range(m.functions) \cup Range(m.procedures)

RECURSIVE RoutineLine(_)
\* the line of the routine a position on line l belongs to: its first digit
RoutineLine(l) == IF l < 10 THEN l ELSE RoutineLine(l \div 10)

\* the diagnostic e is positioned inside routine r
InRoutine(e, r) == RoutineLine(e.line) = r.line

\* the statement lists held by a statement
Blocks(stmt) ==
    CASE stmt.type = "IfNode" ->
             {stmt.then_body, stmt.else_body}
             \cup {stmt.elif_branches[i][2] : i \in DOMAIN stmt.elif_branches}
      [] stmt.type \in {"WhileNode", "ForNode", "ForEachNode"} -> {stmt.body}
      [] stmt.type = "TryNode" -> {stmt.try_body, stmt.except_body}
      [] OTHER -> {}

RECURSIVE StatementsIn(_)
\* every statement of a body, at any depth
StatementsIn(body) ==
    UNION {{body[i]} \cup UNION {StatementsIn(b) : b \in Blocks(body[i])} :
              i \in DOMAIN body}

\* the names a body declares by Перем or as a loop variable, at any depth
DeclaredNames(body) ==
    UNION {IF st.type = "VarDeclarationNode" THEN Range(st.names)
           ELSE IF st.type \in {"ForNode", "ForEachNode"} THEN {st.variable}
           ELSE {} : st \in StatementsIn(body)}

\* the bare-identifier targets of the assignments of a body
AssignmentTargets(body) ==
    {st.target : st \in {a \in StatementsIn(body) :
                            a.type = "AssignmentNode"
                            /\ a.target.type = "IdentifierNode"}}

\* the root expressions of a statement, a bare-identifier target excluded
ExpressionsOf(st) ==
    (CASE st.type = "AssignmentNode" ->
              {st.value} \cup (IF st.target.type = "IdentifierNode" THEN {}
                               ELSE {st.target})
       [] st.type = "IfNode" ->
              {st.condition}
              \cup {st.elif_branches[i][1] : i \in DOMAIN st.elif_branches}
       [] st.type = "WhileNode" -> {st.condition}
       [] st.type = "ForNode" -> {st.start, st.end}
       [] st.type = "ForEachNode" -> {st.collection}
       [] st.type = "ReturnNode" -> {st.value}
       [] st.type \in {"RaiseNode", "AwaitNode", "ExpressionStatementNode"} ->
              {st.expression}
       [] OTHER -> {}) \ {None}

RECURSIVE NodesOf(_)
\* an expression and all its sub-expressions
NodesOf(e) ==
    {e} \cup
    CASE e.type = "BinaryOpNode" -> NodesOf(e.left) \cup NodesOf(e.right)
      [] e.type = "UnaryOpNode" -> NodesOf(e.operand)
      [] e.type = "TernaryNode" ->
             NodesOf(e.condition) \cup NodesOf(e.true_value)
             \cup NodesOf(e.false_value)
      [] e.type = "CallNode" ->
             NodesOf(e.function)
             \cup UNION {NodesOf(e.arguments[i]) : i \in DOMAIN e.arguments}
      [] e.type = "MemberAccessNode" -> NodesOf(e.object)
      [] e.type = "IndexAccessNode" -> NodesOf(e.object) \cup NodesOf(e.index)
      [] e.type = "NewNode" ->
             UNION {NodesOf(e.arguments[i]) : i \in DOMAIN e.arguments}
      [] OTHER -> {}

\* every expression node of a body
ExpressionNodes(body) ==
    UNION {NodesOf(e) : e \in UNION {ExpressionsOf(st) : st \in StatementsIn(body)}}

\* the identifier references of a body: operands, callees, base objects,
\* indexes and arguments (not the bare targets of assignments)
References(body) ==
    {e \in ExpressionNodes(body) : e.type = "IdentifierNode"}

\* the names a module declares at module level
ModuleNames(m) ==
    UNION {Range(m.var_declarations[i].names) : i \in DOMAIN m.var_declarations}
    \cup {r.name : r \in Routines(m)}

LowerAll(names) == {Lower(n) : n \in names}

\* the keys under which a name resolves in routine r of module m whatever
\* has been checked so far: module level, registry, parameters, declarations
KnownKeys(m, reg, r) ==
    LowerAll(ModuleNames(m))
    \cup (IF reg = None THEN {}
          ELSE {k \in DOMAIN reg.functions \cup DOMAIN reg.types : k = Lower(k)})
    \cup LowerAll({r.parameters[i].name : i \in DOMAIN r.parameters})
    \cup LowerAll(DeclaredNames(r.body))

\* the keys routine r may come to define by assignment
AssignedKeys(r) == LowerAll({t.name : t \in AssignmentTargets(r.body)})

\* the diagnostics of a list, as a set
Diagnostics(list) == Range(list)

\* how many diagnostics of the list sit at position (l, c)
CountAt(list, l, c) ==
    Cardinality({i \in DOMAIN list : list[i].line = l /\ list[i].column = c})

\* the last analyze() call was given a module and has returned
Analysed == pc = "idle" /\ root.type = "ModuleNode"

-----------------------------------------------------------------------------
(* Function-wide scope of the declarations of a body *)

\* the routine of the analysed module that holds line l
RoutineAt(l) == CHOOSE r \in Routines(root) : r.line = RoutineLine(l)

\* C1: a name declared by Перем or as a For / For Each loop variable anywhere
\* in a function or procedure body, at any depth inside If / ElsIf / Else,
\* While, For, For Each and Try / Except blocks, resolves at every reference
\* in that body, whatever the letter case of the reference and also before
\* the declaration and after the declaring block: when such a reference is
\* visited the lookup finds a symbol, and no diagnostic positioned in the
\* body mentions such a name.
C1_DeclaredNamesResolveInWholeBody ==
    /\ Visiting("check", "IdentifierNode")
       => (Lower(Task.node.name)
               \in LowerAll(DeclaredNames(RoutineAt(Task.node.line).body))
           => lookup(symbol_table, Task.node.name) # None)
    /\ root.type = "ModuleNode"
       => \A e \in Diagnostics(checker_errors) \cup Diagnostics(errors) :
              Lower(e.message[2])
                  \notin LowerAll(DeclaredNames(RoutineAt(e.line).body))

\* Перем z, X two blocks deep (ElsIf inside Try); x is returned after the
\* outer block has ended
C1_Module ==
    ModuleNode(<<>>,
               <<FunctionNode("F", <<>>,
                     NestIn(<<"try", "elif">>,
                            <<Declaration("var", "X", 1211)>>, 12)
                     \o <<Reference("x", 13)>>, 1, 1)>>,
               <<>>, <<>>)

\* the analysis of C1_Module has returned, without a diagnostic for x
C1_Witness ==
    /\ Analysed
    /\ root = C1_Module
    /\ errors = <<>>

-----------------------------------------------------------------------------
(* Assignment to an undeclared bare identifier *)

\* the checker is about to handle the bare-identifier target of an
\* assignment, its value already checked, and the target resolves to nothing
AtUnresolvedTarget ==
    /\ pc = "check"
    /\ todo # <<>>
    /\ Task.op = "assign_target"
    /\ Task.node.target.type = "IdentifierNode"
    /\ lookup(symbol_table, Task.node.target.name) = None

\* the step defines the target as a variable in the current function scope
DefinesTarget ==
    LET tg == Task.node.target
    IN  /\ symbol_table'.scopes = [symbol_table.scopes EXCEPT
               ![Len(symbol_table.scopes)] =
                   DictSet(@, Lower(tg.name),
                           Symbol(tg.name, "variable", tg.line, tg.column,
                                  get_current_scope_level(symbol_table)))]
        /\ get_current_scope_level(symbol_table) = 1
        /\ Len(symbol_table.scopes) = 2
        /\ lookup_local(symbol_table', tg.name).kind = "variable"

\* the diagnostics the checker holds for statement st: those on its line
StatementDiagnostics(list, st) == {e \in Diagnostics(list) : e.line = st.line}

UndeclaredTargets(r) ==
    {tg \in AssignmentTargets(r.body) :
        Lower(tg.name) \notin KnownKeys(root, builtins, r)}

ValueMentionsTarget(st) ==
    \E n \in NodesOf(st.value) :
        n.type = "IdentifierNode" /\ Lower(n.name) = Lower(st.target.name)

\* X = 5; Return x
AssignThenReturnModule ==
    ModuleNode(<<>>,
               <<FunctionNode("F", <<>>,
                     <<Declaration("assign", "X", 12), Reference("x", 13)>>,
                     1, 1)>>,
               <<>>, <<>>)

-----------------------------------------------------------------------------
(* Module-level names *)

\* table t holds every module-level name of module m in its module scope
ModuleNamesDefined(t, m) ==
    \A n \in ModuleNames(m) :
        /\ Lower(n) \in DOMAIN t.scopes[1]
        /\ t.scopes[1][Lower(n)].kind \in {"variable", "function", "procedure"}
        /\ lookup(t, n) # None

\* C4: every module-level Перем name and every function and procedure name
\* of the module is defined in the module scope before any function or
\* procedure body is visited, in the collection pass and in the checking
\* pass, so that no diagnostic mentions one of these names, wherever its
\* declaration stands relative to the reference.
C4_ModuleNamesDefinedBeforeBodies ==
    /\ (Visiting("collect", "FunctionNode") \/ Visiting("collect", "ProcedureNode"))
       => ModuleNamesDefined(collector_table, root)
    /\ pc = "check" => ModuleNamesDefined(symbol_table, root)
    /\ root.type = "ModuleNode"
       => \A e \in Diagnostics(checker_errors) \cup Diagnostics(errors) :
              Lower(e.message[2]) \notin LowerAll(ModuleNames(root))

\* Перем g; F calls the later function H with g, H calls the later procedure
\* P as p, P returns g
ForwardReferencesModule ==
    ModuleNode(<<VarDeclarationNode(<<"g">>, 91, 1)>>,
               <<FunctionNode("F", <<>>,
                     <<ExpressionStatementNode(
                           CallNode(IdentifierNode("H", 11, 8),
                                    <<IdentifierNode("g", 11, 9)>>, 11, 1),
                           11, 0)>>, 1, 1),
                 FunctionNode("H", <<ParameterNode("a", 2, 2)>>,
                     <<ExpressionStatementNode(
                           CallNode(IdentifierNode("p", 21, 8), <<>>, 21, 1),
                           21, 0)>>, 2, 1)>>,
               <<ProcedureNode("P", <<>>,
                     <<ReturnNode(IdentifierNode("g", 31, 1), 31, 0)>>, 3, 1)>>,
               <<>>)

\* the analysis of ForwardReferencesModule has returned without a diagnostic
C4_Witness ==
    /\ Analysed
    /\ root = ForwardReferencesModule
    /\ errors = <<>>

-----------------------------------------------------------------------------
(* Which occurrences are reported *)

\* name n resolves in routine r at every point of the check
AlwaysResolves(n, r) == Lower(n) \in KnownKeys(root, builtins, r)

\* name n resolves in routine r at no point of the check
NeverResolves(n, r) ==
    Lower(n) \notin KnownKeys(root, builtins, r) \cup AssignedKeys(r)

\* the list holds exactly one diagnostic at the position of node n, and it is d
ReportedOnce(list, n, d) ==
    /\ CountAt(list, n.line, n.column) = 1
    /\ d \in Diagnostics(list)

\* the list holds no diagnostic at the position of node n
NotReported(list, n) == CountAt(list, n.line, n.column) = 0

UndefinedVariable(n) ==
    SemanticError("Undefined variable", n.name, n.line, n.column,
                  "undefined_variable")

UndefinedFunction(n) ==
    SemanticError("Call to undefined function", n.name, n.line, n.column,
                  "undefined_variable")

UnknownType(n) ==
    SemanticError("Unknown type", n.type_name, n.line, n.column,
                  "undefined_type")

\* the callees of a body that are bare identifiers
Callees(body) ==
    {n.function : n \in {c \in ExpressionNodes(body) :
                            c.type = "CallNode"
                            /\ c.function.type = "IdentifierNode"}}

\* the list reports identifier n of routine r as its resolution requires
ReportedAsResolved(list, n, r) ==
    /\ NeverResolves(n.name, r)
       => ReportedOnce(list, n,
                       IF n \in Callees(r.body) THEN UndefinedFunction(n)
                       ELSE UndefinedVariable(n))
    /\ AlwaysResolves(n.name, r) => NotReported(list, n)

\* every undefined_variable diagnostic of the list is the only one at its
\* position, which is that of a reference to the name it mentions
EachAtItsReference(list) ==
    \A e \in Diagnostics(list) :
        e.error_type = "undefined_variable"
        => /\ CountAt(list, e.line, e.column) = 1
           /\ \E n \in References(RoutineAt(e.line).body) :
                  /\ n.name = e.message[2]
                  /\ n.line = e.line
                  /\ n.column = e.column

\* C5: reference checking does not stop at the first problem.  Every
\* undefined_variable diagnostic is the only one at its position, the
\* position of a reference to the name it mentions; a step that adds a
\* diagnostic adds one and keeps every pending visit; and the returned list
\* holds exactly one diagnostic for every reference, in any expression,
\* statement, function or procedure, whose name never resolves in its body
\* and none for a reference whose name always resolves.
C5_OneDiagnosticPerUnresolvedReference ==
    /\ [](root.type = "ModuleNode"
          => EachAtItsReference(checker_errors) /\ EachAtItsReference(errors))
    /\ [](Analysed
          => \A r \in Routines(root) :
                 \A n \in References(r.body) : ReportedAsResolved(errors, n, r))
    /\ [][pc = "check" /\ pc' = "check" /\ checker_errors' # checker_errors
          => /\ Len(checker_errors') = Len(checker_errors) + 1
             /\ SubSeq(checker_errors', 1, Len(checker_errors)) = checker_errors
             /\ Len(todo') >= Len(Rest)
             /\ SubSeq(todo', Len(todo') - Len(Rest) + 1, Len(todo')) = Rest]_vars

\* F returns g, H(a) returns y, P returns a: nothing declares g, y, or a in P
ThreeRoutinesModule ==
    ModuleNode(<<>>,
               <<FunctionNode("F", <<>>,
                     <<ReturnNode(IdentifierNode("g", 11, 1), 11, 0)>>, 1, 1),
                 FunctionNode("H", <<ParameterNode("a", 2, 2)>>,
                     <<ReturnNode(IdentifierNode("y", 21, 1), 21, 0)>>, 2, 1)>>,
               <<ProcedureNode("P", <<>>,
                     <<ReturnNode(IdentifierNode("a", 31, 1), 31, 0)>>, 3, 1)>>,
               <<>>)

\* analyze() has returned one diagnostic for each of the three routines
C5_Witness ==
    /\ Analysed
    /\ root = ThreeRoutinesModule
    /\ errors = <<UndefinedVariable(IdentifierNode("g", 11, 1)),
                  UndefinedVariable(IdentifierNode("y", 21, 1)),
                  UndefinedVariable(IdentifierNode("a", 31, 1))>>

\* the identifiers among the arguments of a call or construction
ArgumentIdentifiers(n) ==
    {n.arguments[i] : i \in {j \in DOMAIN n.arguments :
                                n.arguments[j].type = "IdentifierNode"}}

\* C6: for a call in a function or procedure body, a bare-identifier callee
\* that resolves to nothing gets exactly one diagnostic, of kind
\* undefined_variable, and a resolving one gets none; for a member-access
\* callee the base object is checked and nothing is reported for the member
\* access or the method name; every argument is checked in each case.
C6_CalleeOnceArgumentsAlways ==
    Analysed
    => \A r \in Routines(root) :
           \A c \in {n \in ExpressionNodes(r.body) : n.type = "CallNode"} :
               /\ c.function.type = "IdentifierNode"
                  => /\ NeverResolves(c.function.name, r)
                        => ReportedOnce(errors, c.function,
                                        UndefinedFunction(c.function))
                     /\ AlwaysResolves(c.function.name, r)
                        => NotReported(errors, c.function)
               /\ c.function.type = "MemberAccessNode"
                  => /\ NotReported(errors, c.function)
                     /\ \A e \in Diagnostics(errors) :
                            ~Mentions(e, c.function.member)
                     /\ c.function.object.type = "IdentifierNode"
                        => ReportedAsResolved(errors, c.function.object, r)
               /\ \A a \in ArgumentIdentifiers(c) :
                      ReportedAsResolved(errors, a, r)

\* u(x, y) where nothing declares u, x or y
UndefinedCallModule ==
    ModuleNode(<<>>,
               <<FunctionNode("F", <<>>,
                     <<ExpressionStatementNode(
                           CallNode(IdentifierNode("u", 12, 8),
                                    <<IdentifierNode("x", 12, 9),
                                      IdentifierNode("y", 12, 10)>>, 12, 1),
                           12, 0)>>, 1, 1)>>,
               <<>>, <<>>)

\* analyze() has returned one diagnostic for the callee, then one for each
\* argument
C6_Witness ==
    /\ Analysed
    /\ root = UndefinedCallModule
    /\ errors = <<UndefinedFunction(IdentifierNode("u", 12, 8)),
                  UndefinedVariable(IdentifierNode("x", 12, 9)),
                  UndefinedVariable(IdentifierNode("y", 12, 10))>>

\* C7: for a construction `New T(..)` in a function or procedure body,
\* analyze() returns exactly one diagnostic, of kind undefined_type, when T
\* resolves to no symbol, and none for T when the analyzer was built with a
\* registry that holds T as a type; the arguments are checked in both cases.
C7_UnknownTypeReportedOnce ==
    Analysed
    => \A r \in Routines(root) :
           \A c \in {n \in ExpressionNodes(r.body) : n.type = "NewNode"} :
               /\ NeverResolves(c.type_name, r)
                  => ReportedOnce(errors, c, UnknownType(c))
               /\ (builtins # None /\ is_builtin_type(builtins, c.type_name))
                  => NotReported(errors, c)
               /\ \A a \in ArgumentIdentifiers(c) :
                      ReportedAsResolved(errors, a, r)

\* New T(x), analysed with the registry that holds the type T
KnownTypeModule ==
    ModuleNode(<<>>,
               <<FunctionNode("F", <<>>,
                     <<ExpressionStatementNode(
                           NewNode("T", <<IdentifierNode("x", 12, 9)>>, 12, 1),
                           12, 0)>>, 1, 1)>>,
               <<>>, <<>>)

\* analyze() has returned the diagnostic of the argument alone
C7_Witness ==
    /\ Analysed
    /\ root = KnownTypeModule
    /\ builtins = RegistryA
    /\ is_builtin_type(builtins, "T")
    /\ errors = <<UndefinedVariable(IdentifierNode("x", 12, 9))>>

\* C8: for a member access obj.m and an index access obj[i] in a function or
\* procedure body, the member name never causes a diagnostic and nothing is
\* reported for the access itself; an identifier that is the base object, or
\* the index, is reported once when it resolves to nothing and not at all
\* when it resolves.
C8_BaseAndIndexChecked ==
    Analysed
    => \A r \in Routines(root) :
           \A c \in ExpressionNodes(r.body) :
               /\ c.type = "MemberAccessNode"
                  => /\ \A e \in Diagnostics(errors) : ~Mentions(e, c.member)
                     /\ NotReported(errors, c)
                     /\ c.object.type = "IdentifierNode"
                        => ReportedAsResolved(errors, c.object, r)
               /\ c.type = "IndexAccessNode"
                  => /\ NotReported(errors, c)
                     /\ c.object.type = "IdentifierNode"
                        => ReportedAsResolved(errors, c.object, r)
                     /\ c.index.type = "IdentifierNode"
                        => ReportedAsResolved(errors, c.index, r)

\* y[x] = x.m where nothing declares x or y
MemberAndIndexModule ==
    ModuleNode(<<>>,
               <<FunctionNode("F", <<>>,
                     <<AssignmentNode(
                           IndexAccessNode(IdentifierNode("y", 12, 16),
                                           IdentifierNode("x", 12, 17), 12, 2),
                           MemberAccessNode(IdentifierNode("x", 12, 8), "m",
                                            12, 1),
                           12, 0)>>, 1, 1)>>,
               <<>>, <<>>)

\* analyze() has returned a diagnostic for the base of x.m, then for the
\* base and the index of y[x]
C8_Witness ==
    /\ Analysed
    /\ root = MemberAndIndexModule
    /\ errors = <<UndefinedVariable(IdentifierNode("x", 12, 8)),
                  UndefinedVariable(IdentifierNode("y", 12, 16)),
                  UndefinedVariable(IdentifierNode("x", 12, 17))>>

-----------------------------------------------------------------------------
(* A root that is not a module *)

InvalidAst ==
    SemanticError("Expected ModuleNode as root of AST", "", 0, 0, "invalid_ast")

\* C9: analyze() of a root that is not a ModuleNode returns a list that holds
\* exactly one diagnostic, of kind invalid_ast, and runs neither pass: the
\* call leaves the analyzer's symbol table as it was, creates no collector
\* and no checker, and has returned at once.
C9_InvalidRootOneDiagnosticNoPass ==
    /\ [][pc = "idle" /\ root'.type # "ModuleNode"
          => /\ errors' = <<InvalidAst>>
             /\ symbol_table' = symbol_table
             /\ collector_table' = collector_table
             /\ checker_errors' = checker_errors
             /\ todo' = <<>>
             /\ pc' = "idle"]_vars
    /\ [](root \in NonModuleRoots
          => /\ pc = "idle"
             /\ Len(errors) = 1
             /\ errors[1].error_type = "invalid_ast")

\* a function was given as root after the analysis of a module that reported
\* something: one diagnostic is returned, the module's table is still there
C9_Witness ==
    /\ pc = "idle"
    /\ root = FunctionNode("F", <<>>,
                           <<ReturnNode(IdentifierNode("u", 11, 1), 11, 0)>>,
                           1, 1)
    /\ ast = ThreeRoutinesModule
    /\ errors = <<InvalidAst>>
    /\ symbol_table # None
    /\ lookup(symbol_table, "H") # None

-----------------------------------------------------------------------------
(* Case-insensitive lookups *)

\* the step is define(n, s) for the symbol s of name n
IsDefine(n) ==
    symbol_table' = define(symbol_table, n, TableSymbol(symbol_table, n))

\* the step defines the key of name m again
KeyRedefined(m) ==
    \E n \in TableNames : Lower(n) = Lower(m) /\ IsDefine(n)

ScopeExited == Len(symbol_table'.scopes) < Len(symbol_table.scopes)

ScopeEntered == Len(symbol_table'.scopes) > Len(symbol_table.scopes)

\* right after define(n, s), lookup(m) and lookup_local(m) return s, whose
\* name is n as declared, for every m equal to n after lowercasing
DefineThenFound ==
    \A n \in TableNames :
        IsDefine(n)
        => \A m \in QueryNames :
               Lower(m) = Lower(n)
               => /\ lookup(symbol_table', m) = TableSymbol(symbol_table, n)
                  /\ lookup_local(symbol_table', m)
                         = TableSymbol(symbol_table, n)
                  /\ lookup(symbol_table', m).name = n

\* what lookup(m) returns, it returns until a scope is exited or the key is
\* defined again
LookupKept ==
    \A m \in QueryNames :
        (lookup(symbol_table, m) # None /\ ~ScopeExited /\ ~KeyRedefined(m))
        => lookup(symbol_table', m) = lookup(symbol_table, m)

\* C10 as stated: lookups are case-insensitive; after define(n, s), lookup(m)
\* and lookup_local(m) return s for every m that equals n after lowercasing,
\* until a scope is exited or the key is redefined, and Symbol.name keeps the
\* declared casing.
C10_BothLookupsKeptUntilExitOrRedefine ==
    [][/\ DefineThenFound
       /\ LookupKept
       /\ \A m \in QueryNames :
              (lookup_local(symbol_table, m) # None
               /\ ~ScopeExited /\ ~KeyRedefined(m))
              => lookup_local(symbol_table', m) = lookup_local(symbol_table, m)]_vars

\* C10, amended: lookups are case-insensitive; after define(n, s), lookup(m)
\* and lookup_local(m) return s for every m that equals n after lowercasing,
\* and Symbol.name keeps the declared casing; lookup(m) returns s until a
\* scope is exited or the key is redefined, lookup_local(m) only until then
\* or until a nested scope is entered: in a scope just entered lookup_local
\* returns None for every name.
C10_LookupLocalOnlyInDefiningScope ==
    [][/\ DefineThenFound
       /\ LookupKept
       /\ \A m \in QueryNames :
              /\ (lookup_local(symbol_table, m) # None
                  /\ ~ScopeExited /\ ~KeyRedefined(m) /\ ~ScopeEntered)
                 => lookup_local(symbol_table', m)
                        = lookup_local(symbol_table, m)
              /\ ScopeEntered => lookup_local(symbol_table', m) = None]_vars

\* X was defined in the module scope and a scope was entered:
\* lookup finds it under x and X with its declared name, lookup_local does not
C10_Witness ==
    /\ pc = "enter_scope"
    /\ Len(symbol_table.scopes) = 2
    /\ lookup(symbol_table, "x") = Symbol("X", "variable", 1, 1, 0)
    /\ lookup(symbol_table, "X") = lookup(symbol_table, "x")
    /\ lookup(symbol_table, "x").name = "X"
    /\ lookup_local(symbol_table, "x") = None

-----------------------------------------------------------------------------
(* The scope stack *)

\* the table holds its module scope and its level counts the nested scopes
ScopeStackSound(t) ==
    /\ Len(t.scopes) >= 1
    /\ get_current_scope_level(t) = Len(t.scopes) - 1

\* C11: after any sequence of enter_scope, exit_scope and define calls on a
\* SymbolTable the scope stack holds at least one scope (the module scope is
\* never popped) and current_scope_level equals the number of scopes on the
\* stack minus one; an exit_scope called at depth 0 changes nothing, and at
\* a greater depth it pops exactly the innermost scope.
C11_ModuleScopeNeverPopped ==
    /\ [](pc \in TableCalls => ScopeStackSound(symbol_table))
    /\ [][pc' = "exit_scope"
          => IF get_current_scope_level(symbol_table) = 0
             THEN symbol_table' = symbol_table
             ELSE /\ Len(symbol_table'.scopes) = Len(symbol_table.scopes) - 1
                  /\ symbol_table'.scopes[1] = symbol_table.scopes[1]]_vars

\* exit_scope was the last call, the table is at depth 0 and still holds, in
\* its module scope, the x that was defined there
C11_Witness ==
    /\ pc = "exit_scope"
    /\ get_current_scope_level(symbol_table) = 0
    /\ Len(symbol_table.scopes) = 1
    /\ exit_scope(symbol_table) = symbol_table
    /\ lookup_local(symbol_table, "x") = Symbol("x", "variable", 1, 1, 0)

-----------------------------------------------------------------------------
(* Builtins in the module scope *)

\* the spellings under which the client looks the builtins up
BuiltinSpellings == {"msg", "Msg", "t", "T", "u", "U"}

\* the keys held by registry reg
RegistryKeys(reg) == get_all_functions(reg) \cup get_all_types(reg)

\* C12: when a SymbolTable is constructed with a builtin registry, every
\* function name and every type name held by the registry is a key of the
\* module-level scope and resolves by lookup, in any letter case, to a
\* symbol with is_builtin = true, scope_level = 0 and declaration line and
\* column 0, of kind builtin_function or builtin_type; the table counts one
\* builtin per function key and one per type key.
C12_RegistryNamesResolveAsBuiltins ==
    (pc \in TableCalls /\ builtins # None)
    => /\ \A k \in RegistryKeys(builtins) :
              /\ k \in DOMAIN symbol_table.scopes[1]
              /\ \A m \in BuiltinSpellings :
                     Lower(m) = k
                     => LET s == lookup(symbol_table, m)
                        IN  /\ s # None
                            /\ s = symbol_table.scopes[1][k]
                            /\ s.is_builtin
                            /\ s.scope_level = 0
                            /\ s.line = 0
                            /\ s.column = 0
                            /\ s.kind = IF is_builtin_type(builtins, m)
                                        THEN "builtin_type"
                                        ELSE "builtin_function"
       /\ get_builtins_count(symbol_table)
              = Cardinality(get_all_functions(builtins))
                + Cardinality(get_all_types(builtins))

\* the table was built with the registry that holds t as a function and as
\* a type: T resolves to the builtin type, Msg to a builtin function
\* named by its key, also two scopes deep
C12_Witness ==
    /\ pc = "enter_scope"
    /\ builtins = RegistryB
    /\ Len(symbol_table.scopes) = 3
    /\ lookup(symbol_table, "T") = BuiltinSymbol("t", "builtin_type")
    /\ lookup(symbol_table, "Msg") = BuiltinSymbol("msg", "builtin_function")
    /\ lookup(symbol_table, "U") = BuiltinSymbol("U", "builtin_type")
    /\ get_builtins_count(symbol_table) = 4

-----------------------------------------------------------------------------
(* Keywords in any letter case *)

KeywordKinds == {KEYWORDS[w] : w \in DOMAIN KEYWORDS}

\* the tokens read_identifier_or_keyword makes
IsWord(token) == token.type \in KeywordKinds \cup {"IDENTIFIER"}

\* the index in the source, from 0, of the character at a line and column
RECURSIVE OffsetFrom(_, _, _, _, _, _)
OffsetFrom(source, i, l, c, line, column) ==
    IF (l = line /\ c = column) \/ i >= Len(source) THEN i
    ELSE IF source[i + 1] = "\n"
    THEN OffsetFrom(source, i + 1, l + 1, 1, line, column)
    ELSE OffsetFrom(source, i + 1, l, c + 1, line, column)

\* the n characters of the source that start at a line and column
TextAt(source, line, column, n) ==
    LET i == OffsetFrom(source, 0, 1, 1, line, column)
    IN  SubSeq(source, i + 1, i + n)

\* C13: keyword recognition is case-insensitive.  The kind of a word token
\* depends on the lowercase form of the word alone: it is the kind of the
\* keyword that has this lowercase form, when there is one, and IDENTIFIER
\* otherwise, so two spellings that differ only in letter case get the same
\* keyword kind; and the token's text is the spelling exactly as written in
\* the source.
C13_KeywordsInAnyCase ==
    (pc \in LexCalls \cup {"returned", "raised"})
    => \A i \in DOMAIN lexer.tokens :
           LET token == lexer.tokens[i]
           IN  IsWord(token)
               => /\ \A w \in DOMAIN KEYWORDS :
                         LowerStr(token.value) = LowerStr(w)
                         => token.type = KEYWORDS[w]
                  /\ (\A w \in DOMAIN KEYWORDS :
                          LowerStr(token.value) # LowerStr(w))
                     => token.type = "IDENTIFIER"
                  /\ token.value # <<>>
                  /\ token.value = TextAt(lexer.source, token.line,
                                          token.column, Len(token.value))

\* `i I` was lexed: two AND keywords, each with its own spelling
C13_Witness ==
    /\ pc = "returned"
    /\ lexer.source = <<"i", " ", "I">>
    /\ result = TokenList(<<Token("KEYWORD_AND", <<"i">>, 1, 1),
                            Token("KEYWORD_AND", <<"I">>, 1, 3),
                            Token("EOF", <<>>, 1, 4)>>)

-----------------------------------------------------------------------------
(* Unterminated string literals *)

\* the string whose first character after the opening quote is source[i] is
\* closed: a quote that is not the first of a "" pair follows
RECURSIVE Closed(_, _)
Closed(source, i) ==
    IF i > Len(source) THEN FALSE
    ELSE IF source[i] # "\"" THEN Closed(source, i + 1)
    ELSE IF i + 1 <= Len(source) /\ source[i + 1] = "\""
    THEN Closed(source, i + 2)
    ELSE TRUE

\* C14: when the opening double quote of a string literal is never matched
\* by a closing quote before the end of input (a "" pair is an escaped
\* quote, newlines may stand inside), tokenize() raises the LexerError
\* 'Unterminated string literal' with the line and column of the opening
\* quote and returns no token list; when the quote is matched, the
\* iteration appends a string token positioned at the opening quote.
C14_UnterminatedStringAtOpeningQuote ==
    [][InLoop("string")
       => LET lx == skip_whitespace(lexer)
          IN  IF Closed(lx.source, lx.pos + 2)
              THEN /\ pc' = pc
                   /\ Len(lexer'.tokens) = Len(lexer.tokens) + 1
                   /\ lexer'.tokens[Len(lexer'.tokens)].type = "LITERAL_STRING"
                   /\ lexer'.tokens[Len(lexer'.tokens)].line = lx.line
                   /\ lexer'.tokens[Len(lexer'.tokens)].column = lx.column
              ELSE /\ pc' = "raised"
                   /\ result' = LexerError("Unterminated string literal", "",
                                           lx.line, lx.column)
                   /\ lexer'.pos = Len(lexer.source)]_vars

\* a quote, then a "" pair and a line end: the error is at the opening
\* quote, line 1 column 1, and the input ended on line 2
C14_Witness ==
    /\ pc = "raised"
    /\ lexer.source = <<"\"", "\"", "\"", "\n">>
    /\ result = LexerError("Unterminated string literal", "", 1, 1)
    /\ lexer.line = 2
    /\ lexer.column = 1

-----------------------------------------------------------------------------
(* The two entry points of the lexer *)

\* tokenize_without_whitespace() returns in this step
StrippedReturns == pc = "tokenize_without_whitespace" /\ pc' = "returned"

\* the list without the tokens of the given kinds
Without(list, kinds) == SelectSeq(list, LAMBDA t : t.type \notin kinds)

\* C15 as stated: for an input that lexes without error, the token sequence
\* of tokenize() without its comment, newline and end-of-input tokens is
\* the sequence tokenize_without_whitespace() returns.
C15_StrippedIsTokenizeWithoutEof ==
    [][StrippedReturns
       => result'.items = Without(Returned("tokenize", lexer'.tokens),
                                  {"COMMENT", "NEWLINE", "EOF"})]_vars

\* C15, amended: for an input that lexes without error, the token sequence
\* of tokenize() without its comment and newline tokens is the sequence
\* tokenize_without_whitespace() returns; the end-of-input token is kept, as
\* the last element of both.
C15_StrippedIsTokenizeWithoutWhitespace ==
    [][StrippedReturns
       => /\ result'.items = Without(Returned("tokenize", lexer'.tokens),
                                     {"COMMENT", "NEWLINE"})
          /\ result'.items[Len(result'.items)].type = "EOF"
          /\ result'.items[Len(result'.items)]
             = lexer'.tokens[Len(lexer'.tokens)]]_vars

\* `a`, a line end and a comment were lexed: the stripped list is a and EOF
C15_Witness ==
    /\ pc = "returned"
    /\ lexer.tokens = <<Token("IDENTIFIER", <<"a">>, 1, 1),
                        Token("NEWLINE", <<"\\", "n">>, 1, 2),
                        Token("COMMENT", <<>>, 2, 1),
                        Token("EOF", <<>>, 2, 3)>>
    /\ result = TokenList(<<Token("IDENTIFIER", <<"a">>, 1, 1),
                            Token("EOF", <<>>, 2, 3)>>)

-----------------------------------------------------------------------------
(* Termination of the lexer *)

\* the list holds one EOF token, as its last element
EndsWithOnlyEof(list) ==
    /\ list # <<>>
    /\ \A i \in DOMAIN list : list[i].type = "EOF" <=> i = Len(list)

\* C19: for every source text tokenize() terminates; each iteration of the
\* main loop consumes at least one character or raises a LexerError; when
\* tokenize() returns, the token list ends with exactly one end-of-input
\* token, its last element and its only EOF, and for an empty source the
\* list holds that token alone.
C19_TokenizeTerminates ==
    /\ []<>(pc \notin LexCalls)
    /\ [][(pc \in LexCalls /\ lexer.pos < Len(lexer.source))
          => \/ lexer'.pos > lexer.pos /\ lexer'.pos <= Len(lexer.source)
             \/ pc' = "raised" /\ result'.type = "LexerError"]_vars
    /\ [](pc = "returned"
          => /\ EndsWithOnlyEof(lexer.tokens)
             /\ result.type = "list"
             /\ EndsWithOnlyEof(result.items)
             /\ lexer.source = <<>>
                => lexer.tokens = <<Token("EOF", <<>>, 1, 1)>>)
    /\ [](pc = "raised" => result.type = "LexerError")

\* `a`, a line end and blanks were lexed: the last iteration found nothing
\* but blanks, and the list ends with the EOF token
C19_Witness ==
    /\ pc = "returned"
    /\ lexer.source = <<"a", "\n", " ", " ">>
    /\ lexer.pos = 4
    /\ lexer.tokens = <<Token("IDENTIFIER", <<"a">>, 1, 1),
                        Token("NEWLINE", <<"\\", "n">>, 1, 2),
                        Token("EOF", <<>>, 2, 3)>>

-----------------------------------------------------------------------------
(* Precedence climbing *)

\* parse() has returned a module
Parsed == pc = "returned" /\ parser # None /\ result.type = "ModuleNode"

\* how many brackets are open at token k
Depth(tokens, k) ==
    Cardinality({i \in 1..k - 1 : tokens[i].type \in
                     {"DELIMITER_LPAREN", "DELIMITER_LBRACKET"}})
    - Cardinality({i \in 1..k - 1 : tokens[i].type \in
                       {"DELIMITER_RPAREN", "DELIMITER_RBRACKET"}})

\* every expression node of a module: of its statements and of the bodies
\* of its routines
ModuleExpressionNodes(m) ==
    ExpressionNodes(m.statements)
    \cup UNION {ExpressionNodes(m.functions[i].body) : i \in DOMAIN m.functions}
    \cup UNION {ExpressionNodes(m.procedures[i].body) :
                   i \in DOMAIN m.procedures}

\* the columns of the tokens an expression was built from
Columns(e) == {n.column : n \in NodesOf(e)}

\* child is a binary node written within the same brackets as node n
Adjacent(tokens, n, child) ==
    /\ child.type = "BinaryOpNode"
    /\ Depth(tokens, child.column) = Depth(tokens, n.column)

\* C16: binary expressions are parsed by precedence climbing, with
\* or(1) < and(2) < comparisons(4) < additive(5) < multiplicative(6) and left
\* associativity.  In every tree parse() returns, a binary node stands for
\* the operator token at its position, with the operands written before it
\* in its left subtree and those written after it in its right subtree; a
\* binary right child written within the same brackets has a higher
\* precedence (so a higher operator nests below an adjacent lower one, and a
\* chain of equal precedence nests to the left), a binary left child within
\* the same brackets a precedence at least as high, and a bracketed
\* sub-expression is one operand whatever its operator.
C16_PrecedenceClimbing ==
    /\ PRECEDENCE[<<"I", "L", "I">>] = 1
    /\ PRECEDENCE[<<"I">>] = 2
    /\ \A o \in {<<"=">>, <<"<", ">">>, <<"<">>, <<">">>, <<"<", "=">>,
                 <<">", "=">>} : PRECEDENCE[o] = 4
    /\ PRECEDENCE[<<"+">>] = 5 /\ PRECEDENCE[<<"-">>] = 5
    /\ \A o \in {<<"*">>, <<"/">>, <<"%">>} : PRECEDENCE[o] = 6
    /\ Parsed
       => \A n \in ModuleExpressionNodes(result) :
              n.type = "BinaryOpNode"
              => /\ n.operator = OperatorOf(parser.tokens[n.column])
                 /\ n.operator \in DOMAIN PRECEDENCE
                 /\ \A c \in Columns(n.left) : c < n.column
                 /\ \A c \in Columns(n.right) : c > n.column
                 /\ Adjacent(parser.tokens, n, n.right)
                    => PRECEDENCE[n.right.operator] > PRECEDENCE[n.operator]
                 /\ Adjacent(parser.tokens, n, n.left)
                    => PRECEDENCE[n.left.operator] >= PRECEDENCE[n.operator]

\* `(a + b) * c - f` was parsed as the value a function returns: the
\* bracketed sum is the left operand of the product, and the product the
\* left operand of the difference
C16_Witness ==
    /\ Parsed
    /\ parser.tokens = Tokens(InFunction(<<"Vozvrat", "(", "a", "+", "b", ")",
                                           "*", "c", ";">>))
    /\ result.functions[1].body[1].value =
           BinaryOp(BinaryOp(IdentifierNode(<<"a">>, 1, 7), <<"+">>,
                             IdentifierNode(<<"b">>, 1, 9),
                             Token("OP_PLUS", <<"+">>, 1, 8)),
                    <<"*">>, IdentifierNode(<<"c">>, 1, 12),
                    Token("OP_MULTIPLY", <<"*">>, 1, 11))

-----------------------------------------------------------------------------
(* The precedence of the unary NE *)

NOT == <<"N", "E">>

\* C17: unary logical-not has precedence 3, below the comparisons (4) and
\* above logical-and (2).  In every tree parse() returns, a NE written
\* before a comparison (or an operator that binds tighter) takes the whole
\* comparison as its operand, so no such binary node has the NE node as its
\* left child unless the NE is bracketed (`NE a = b` is NE over `a = b`);
\* and the operand of a NE is never an unbracketed I or ILI node (`NE a I b`
\* is I over `NE a` and b).
C17_NotBelowComparisons ==
    /\ PRECEDENCE[NOT] = 3
    /\ Parsed
       => \A n \in ModuleExpressionNodes(result) :
              /\ (/\ n.type = "BinaryOpNode"
                  /\ PRECEDENCE[n.operator] > PRECEDENCE[NOT]
                  /\ n.left.type = "UnaryOpNode"
                  /\ n.left.operator = NOT)
                 => Depth(parser.tokens, n.left.column)
                    > Depth(parser.tokens, n.column)
              /\ (/\ n.type = "UnaryOpNode"
                  /\ n.operator = NOT
                  /\ n.operand.type = "BinaryOpNode"
                  /\ PRECEDENCE[n.operand.operator] < PRECEDENCE[NOT])
                 => Depth(parser.tokens, n.operand.column)
                    > Depth(parser.tokens, n.column)

-----------------------------------------------------------------------------
(* The token a ParserError carries *)

\* C18: parse() is fail-fast: on the first mismatch it raises a single
\* ParserError and returns no module node, and the token that error carries
\* is the token at which the mismatch was detected, wherever in the module
\* (function body or module-level statement) the mismatch occurs.
C18_ErrorCarriesOffendingToken ==
    (pc = "raised" /\ parser # None)
    => /\ result.type = "ParserError"
       /\ todo = <<>>
       /\ result.token = peek(parser, 0)

-----------------------------------------------------------------------------
(* Termination of the parser *)

\* C20: for every token list that ends with the EOF token, parse()
\* terminates, returning a module node or raising a ParserError; each
\* iteration of a statement loop consumes at least one token or ends the
\* call; the cursor never moves past the EOF token; and when parse() returns
\* a module the whole list is consumed: the current token is EOF.
C20_ParseTerminates ==
    /\ []<>(pc # "parse")
    /\ [][pc = "parse"
          => \/ parser'.current > parser.current
             \/ pc' \in {"returned", "raised"}]_vars
    /\ [](parser # None => parser.current < Len(parser.tokens))
    /\ [](pc = "returned" /\ parser # None
          => /\ result.type = "ModuleNode"
             /\ peek(parser, 0).type = "EOF"
             /\ parser.current = Len(parser.tokens) - 1)
    /\ [](pc = "raised" /\ parser # None => result.type = "ParserError")

\* a module of nested loops was parsed to its end
C20_Witness ==
    /\ Parsed
    /\ parser.current = 25
    /\ Len(parser.tokens) = 26
    /\ Len(result.statements) = 1
    /\ result.statements[1].type = "WhileNode"
    /\ result.statements[1].body[1].type = "ForNode"
    /\ result.statements[1].body[1].body[1].type = "ForEachNode"
    /\ result.statements[1].body[1].body[1].body[1].type = "AwaitNode"

-----------------------------------------------------------------------------
(* A client that keeps one SemanticAnalyzer and calls analyze() several      *)
(* times, on the same tree or on another one, keeping every returned list    *)

\* how many analyze() calls on a module the client makes
MaxCalls == 3

\* a parameter with a default value
ParameterWithDefault(name, default, l, c) ==
    [ParameterNode(name, l, c) EXCEPT !.default_value = default]

\* a module using every node class: the function F(a = q + a) and the
\* procedure P, a Перем w and the statements `v = q; w;` at module level
EveryNodeModule ==
    ModuleNode(
        <<VarDeclarationNode(<<"w">>, 91, 1)>>,
        <<FunctionNode("F",
              <<ParameterWithDefault(
                    "a", BinaryOpNode(IdentifierNode("q", 1, 24),
                                      IdentifierNode("a", 1, 25), 1, 3), 1, 2)>>,
              <<VarDeclarationNode(<<"z">>, 11, 0),
                IfNode(UnaryOpNode(IdentifierNode("x", 12, 8), 12, 1),
                       <<BreakNode(121, 0)>>,
                       <<<<IdentifierNode("z", 12, 2),
                           <<ContinueNode(122, 0)>>>>>>,
                       <<AssignmentNode(IdentifierNode("v", 123, 2),
                                        LiteralNode(123, 1), 123, 0)>>,
                       12, 0),
                WhileNode(IdentifierNode("v", 13, 1),
                          <<ForEachNode("e", IdentifierNode("y", 131, 1),
                                        <<>>, 131, 0)>>, 13, 0),
                ForNode("i", LiteralNode(14, 1), IdentifierNode("i", 14, 2),
                        <<>>, 14, 0),
                TryNode(<<RaiseNode(
                              TernaryNode(IdentifierNode("a", 151, 8),
                                          IdentifierNode("e", 151, 9),
                                          IdentifierNode("y", 151, 10),
                                          151, 1), 151, 0)>>,
                        <<AwaitNode(IdentifierNode("x", 152, 1), 152, 0)>>,
                        15, 0),
                ExpressionStatementNode(
                    CallNode(IdentifierNode("P", 16, 8),
                             <<NewNode("U", <<>>, 16, 9)>>, 16, 1), 16, 0),
                AssignmentNode(
                    IndexAccessNode(IdentifierNode("y", 17, 16),
                                    IdentifierNode("x", 17, 17), 17, 2),
                    MemberAccessNode(IdentifierNode("w", 17, 8), "m", 17, 1),
                    17, 0),
                AssignmentNode(IdentifierNode("y", 18, 2),
                               IdentifierNode("y", 18, 1), 18, 0),
                ReturnNode(IdentifierNode("y", 19, 1), 19, 0)>>, 1, 1)>>,
        <<ProcedureNode("P", <<>>,
              <<ReturnNode(IdentifierNode("v", 31, 1), 31, 0)>>, 3, 1)>>,
        <<AssignmentNode(IdentifierNode("v", 92, 2),
                         IdentifierNode("q", 92, 1), 92, 0),
          ExpressionStatementNode(IdentifierNode("w", 93, 1), 93, 0)>>)

\* `Возврат x;` in a function that declares nothing
ReturnOnlyModule ==
    ModuleNode(<<>>,
               <<FunctionNode("F", <<>>, <<Reference("x", 13)>>, 1, 1)>>,
               <<>>, <<>>)

\* the trees the client has at hand
ClientModules ==
    {EveryNodeModule, ReturnOnlyModule, AssignThenReturnModule,
     ThreeUndeclaredModule, ThreeRoutinesModule, C1_Module}

\* one completed call: the tree passed and the list returned
Call(r, list) == [root |-> r, errors |-> list]

\* the calls the client has kept, oldest first
Kept(items) == [type |-> "kept", items |-> items]

ClientInit ==
    /\ ast \in ClientModules
    /\ builtins \in {None, RegistryA}
    /\ root = NotCalled
    /\ errors = <<>>
    /\ symbol_table = None
    /\ collector_table = None
    /\ checker_errors = <<>>
    /\ todo = <<>>
    /\ pc = "idle"
    /\ lexer = None
    /\ parser = None
    /\ result = Kept(<<>>)

\* analyze() returning to the client, which keeps the list
client_keeps ==
    /\ ExtendAndReturn
    /\ result' = Kept(Append(result.items, Call(root, errors')))

\* the client passes one of its trees, MaxCalls times at most
client_calls ==
    /\ Len(result.items) < MaxCalls
    /\ \E r \in ClientModules : analyze_module(r)

ClientNext ==
    \/ \E r \in NonModuleRoots : analyze_invalid(r)
    \/ client_calls
    \/ Collector_visit_ModuleNode
    \/ CollectFunction
    \/ CollectProcedure
    \/ _check_undefined_variables
    \/ client_keeps
    \/ visit_ModuleNode
    \/ visit_FunctionNode
    \/ visit_ProcedureNode
    \/ visit_routine_exit
    \/ visit_IdentifierNode
    \/ visit_AssignmentNode
    \/ visit_AssignmentNode_target
    \/ visit_BinaryOpNode
    \/ visit_UnaryOpNode
    \/ visit_CallNode
    \/ visit_MemberAccessNode
    \/ visit_IndexAccessNode
    \/ visit_ReturnNode
    \/ visit_IfNode
    \/ visit_WhileNode
    \/ visit_ForNode
    \/ visit_ForEachNode
    \/ visit_TryNode
    \/ visit_ExpressionStatementNode
    \/ visit_NewNode
    \/ visit_LiteralNode
    \/ visit_BreakNode
    \/ visit_ContinueNode
    \/ visit_AwaitNode
    \/ visit_VarDeclarationNode
    \/ generic_visit

SpecClient == ClientInit /\ [][ClientNext]_vars

-----------------------------------------------------------------------------
(* Repeated analyze() calls on one analyzer *)

\* C21: no state persists between analyze() calls on one SemanticAnalyzer:
\* whatever was analysed in between (other modules, a root that is not a
\* module), two calls on the same module return equal diagnostic lists, so
\* nothing accumulates and no symbol of an earlier call resolves a reference
\* of a later one.
C21_RepeatedCallsReturnEqualLists ==
    \A i, j \in DOMAIN result.items :
        result.items[i].root = result.items[j].root
            => result.items[i].errors = result.items[j].errors

\* F of AssignThenReturnModule defined X by assignment, then `Возврат x;`
\* alone was analysed and reported x, then the first module again, with the
\* empty list of its first call
C21_Witness ==
    /\ Len(result.items) = 3
    /\ result.items[1] = Call(AssignThenReturnModule, <<>>)
    /\ result.items[2].root = ReturnOnlyModule
    /\ Len(result.items[2].errors) = 1
    /\ result.items[3] = result.items[1]

-----------------------------------------------------------------------------
(* The value of an assignment is checked before its target *)

\* the references to the target's own name inside the value of an assignment
ValueOccurrences(node) ==
    {n \in NodesOf(node.value) :
        /\ n.type = "IdentifierNode"
        /\ Lower(n.name) = Lower(node.target.name)}

\* C22: in an assignment the value is checked before the target: when the
\* checker comes to a bare-identifier target that resolves to nothing, every
\* occurrence of that name in the value (as in `y = y + 1`) has already been
\* reported as an undefined variable, once each, and only then is the target
\* defined.
C22_ValueCheckedBeforeTarget ==
    AtUnresolvedTarget
        => \A n \in ValueOccurrences(Task.node) :
               /\ CountAt(checker_errors, n.line, n.column) = 1
               /\ \E e \in Diagnostics(checker_errors) :
                      /\ e.line = n.line
                      /\ e.column = n.column
                      /\ e.error_type = "undefined_variable"
                      /\ Mentions(e, n.name)

\* `y = y + y` with y undeclared: both occurrences are reported and y is
\* about to be defined
C22_Witness ==
    /\ AtUnresolvedTarget
    /\ Task.node.value.type = "BinaryOpNode"
    /\ Cardinality(ValueOccurrences(Task.node)) = 2
    /\ Len(checker_errors) = 2

-----------------------------------------------------------------------------
(* The function scope as pass 1 fills it and as pass 2 replays it *)

\* the collector is about to visit a function or a procedure
AtCollectRoutine ==
    /\ pc = "collect"
    /\ todo # <<>>
    /\ Task.op = "visit"
    /\ Task.node.type \in {"FunctionNode", "ProcedureNode"}

\* the checker is about to visit a function or a procedure
AtCheckRoutine ==
    /\ pc = "check"
    /\ todo # <<>>
    /\ Task.op = "visit"
    /\ Task.node.type \in {"FunctionNode", "ProcedureNode"}

\* the table of pass 1 inside routine r, right before its exit_scope
PassOneScope(t, r) ==
    IF r.type = "FunctionNode" THEN CollectorFunctionScope(t, r)
    ELSE CollectStatements(DefineParameters(enter_scope(t), r.parameters),
                           r.body)

\* the keys of the parameters of r and of every Перем name and loop variable
\* of its body, at any depth
RoutineKeys(r) ==
    LowerAll({r.parameters[i].name : i \in DOMAIN r.parameters})
    \cup LowerAll(DeclaredNames(r.body))

\* C23: pass 1 enters exactly one scope for a function or procedure and
\* defines in it the parameters and every Перем name and loop variable of the
\* body, those nested at any depth inside if / elseif / else, while, for,
\* for-each and try / except included, before it exits that scope.
C23_PassOneDefinesEveryDeclaration ==
    AtCollectRoutine
        => LET s == PassOneScope(collector_table, Task.node)
           IN  /\ Len(s.scopes) = Len(collector_table.scopes) + 1
               /\ DOMAIN s.scopes[Len(s.scopes)] = RoutineKeys(Task.node)

\* C24: the scope pass 2 replays on entering a function or procedure holds
\* the same parameters and the same locals, with the same symbols, as the
\* scope pass 1 built for it, for every shape of body.
C24_ReplayEqualsPassOne ==
    AtCheckRoutine
        => CheckerEnterRoutine(symbol_table, Task.node)
               = PassOneScope(symbol_table, Task.node)

-----------------------------------------------------------------------------
(* The climbing loop of the statement parser against parse_expression *)

\* the token types that start a statement other than a bare one
StatementKeywords ==
    CompoundStarts
    \cup {"KEYWORD_VAR", "KEYWORD_RETURN", "KEYWORD_BREAK", "KEYWORD_CONTINUE",
          "KEYWORD_RAISE", "KEYWORD_AWAIT"}

\* parse_statement is called and the statement is a bare one
AtBareStatement ==
    /\ AtStatement
    /\ ~match(skip_newlines(parser), StatementKeywords)

\* the tokens from p on as parse_expression parses them, up to a `;`
ExpressionThenSemicolon(p) ==
    Then(parse_expression(p), LAMBDA v :
    Then(expect(v.parser, "DELIMITER_SEMICOLON"), LAMBDA e :
         Ok(e.parser, v.value)))

\* a binary operator is the next token of p that is not a newline
BinaryOperatorFollows(p) ==
    OperatorOf(peek(skip_newlines(p), 0)) \in DOMAIN PRECEDENCE

\* C25: a bare statement starts with a postfix expression.  If `=` follows,
\* the rest up to `;` is parsed as a full expression and is the value of an
\* AssignmentNode.  Otherwise the statement parser resumes climbing from the
\* postfix expression, and whenever parse_expression parses the same tokens
\* up to the `;` -- newline tokens between an operator and its operands
\* included -- the statement is an ExpressionStatementNode around that
\* same tree.
C25_StatementTreeIsExpressionTree ==
    AtBareStatement
    => LET p == skip_newlines(parser)
           x == parse_postfix_expression(p)
           s == parse_expression_or_assignment(p)
       IN  x.error = None
           => IF match(x.parser, {"OP_ASSIGN"})
              THEN LET v == ExpressionThenSemicolon(Parser_advance(x.parser))
                   IN  v.error = None
                       => /\ s.error = None
                          /\ s.parser = v.parser
                          /\ s.value = AssignmentNode(x.value, v.value,
                                                      x.value.line,
                                                      x.value.column)
              ELSE LET e == ExpressionThenSemicolon(p)
                   IN  (BinaryOperatorFollows(x.parser) /\ e.error = None)
                       => /\ s.error = None
                          /\ s.parser = e.parser
                          /\ s.value.type = "ExpressionStatementNode"
                          /\ s.value.expression = e.value

-----------------------------------------------------------------------------
(* When the names of a routine become defined during its check *)

\* the checker is inside a routine: its exit_scope is still to come
InsideRoutine ==
    /\ pc = "check"
    /\ \E i \in DOMAIN todo : todo[i].op = "exit_scope"

\* the routines whose visit is still to come
PendingRoutines ==
    {todo[i].node : i \in {j \in DOMAIN todo :
                              /\ todo[j].op = "visit"
                              /\ todo[j].node.type \in {"FunctionNode",
                                                        "ProcedureNode"}}}

\* the routine the checker is inside: the last one whose visit has begun
CurrentRoutine ==
    LET all == root.functions \o root.procedures
    IN  all[Len(all) - Cardinality(PendingRoutines)]

\* the statements whose check is not complete: those a pending visit will
\* reach and the assignments whose target is still to be handled
PendingStatements ==
    UNION {StatementsIn(<<todo[i].node>>) :
              i \in {j \in DOMAIN todo :
                        todo[j].op \in {"visit", "assign_target"}}}

\* the assignments of routine r to key k whose check is complete
CheckedAssignments(r, k) ==
    {a \in StatementsIn(r.body) \ PendingStatements :
        /\ a.type = "AssignmentNode"
        /\ a.target.type = "IdentifierNode"
        /\ Lower(a.target.name) = k}

\* the keys routine r defines by assignment only
ImplicitKeys(r) == AssignedKeys(r) \ KnownKeys(root, builtins, r)

\* the checker is about to check a reference, inside a routine
AtReference == InsideRoutine /\ Visiting("check", "IdentifierNode")

\* C26: within a routine the Перем names and the loop variables of the body
\* are defined before any statement is checked and stay so, so a reference
\* that precedes the declaration resolves; a name declared by assignment
\* alone is defined exactly from the moment one of its assignments has been
\* checked, so a reference checked earlier is reported and one checked later
\* is not.
C26_DeclaredAtEntryImplicitAtAssignment ==
    /\ [](InsideRoutine
          => /\ \A n \in DeclaredNames(CurrentRoutine.body) :
                    lookup_local(symbol_table, n) # None
             /\ \A k \in ImplicitKeys(CurrentRoutine) :
                    k \in DOMAIN symbol_table.scopes[Len(symbol_table.scopes)]
                    <=> CheckedAssignments(CurrentRoutine, k) # {})
    /\ [][AtReference
          => LET k == Lower(Task.node.name)
             IN  /\ k \in LowerAll(DeclaredNames(CurrentRoutine.body))
                       => checker_errors' = checker_errors
                 /\ k \in ImplicitKeys(CurrentRoutine)
                       => (checker_errors' # checker_errors
                           <=> CheckedAssignments(CurrentRoutine, k) = {})]_vars

\* `Возврат x;` was reported, then an assignment nested in a block defined X
C26_Witness ==
    /\ InsideRoutine
    /\ "x" \in ImplicitKeys(CurrentRoutine)
    /\ lookup_local(symbol_table, "x") # None
    /\ Len(checker_errors) = 1
    /\ Mentions(checker_errors[1], "x")
    /\ \E a \in CheckedAssignments(CurrentRoutine, "x") : a.line > 100

-----------------------------------------------------------------------------
(* The names of one routine while another is checked *)

\* the keys routine r brings: parameters, Перем names, loop variables and
\* assignment targets
OwnKeys(r) == RoutineKeys(r) \cup AssignedKeys(r)

\* the keys that resolve in every routine: module level and registry
ModuleKeys ==
    LowerAll(ModuleNames(root))
    \cup (IF builtins = None THEN {}
          ELSE DOMAIN builtins.functions \cup DOMAIN builtins.types)

\* C27: the parameters, locals, loop variables and implicitly declared
\* variables of one function or procedure are never visible while another
\* one is checked, whatever the order of the two in the module: the scope on
\* top holds keys of the routine being checked only, no key that only
\* another routine brings resolves, and a reference to such a name is
\* reported.
C27_RoutineNamesNotVisibleElsewhere ==
    /\ [](InsideRoutine
          => /\ Len(symbol_table.scopes) = 2
             /\ DOMAIN symbol_table.scopes[2] \subseteq OwnKeys(CurrentRoutine)
             /\ \A r \in Routines(root) \ {CurrentRoutine} :
                    \A k \in OwnKeys(r) \ (OwnKeys(CurrentRoutine)
                                            \cup ModuleKeys) :
                        LookupFrom(symbol_table, k, 2) = None)
    /\ [][AtReference
          => (Lower(Task.node.name) \notin OwnKeys(CurrentRoutine)
                                            \cup ModuleKeys
              => checker_errors' # checker_errors)]_vars

\* P is being checked after F, which defined y, and H(a): neither y nor a
\* resolves, and the reference to a in P has just been reported
C27_Witness ==
    /\ InsideRoutine
    /\ CurrentRoutine.type = "ProcedureNode"
    /\ "y" \in OwnKeys(root.functions[1])
    /\ "a" \in OwnKeys(root.functions[2])
    /\ lookup(symbol_table, "y") = None
    /\ lookup(symbol_table, "a") = None
    /\ checker_errors # <<>>
    /\ Mentions(checker_errors[Len(checker_errors)], "a")
    /\ checker_errors[Len(checker_errors)].line > 30

-----------------------------------------------------------------------------
(* The table after analyze() *)

\* C28: scope entries and exits are balanced in both passes: pass 1 hands
\* over a table at depth 0, every routine of pass 2 leaves it at depth 0, and
\* after analyze() has returned for a module the table is at depth 0 with
\* the module scope alone, which holds the builtins, the module-level Перем
\* names and the function and procedure names, and nothing else.
C28_TableBackAtModuleScope ==
    /\ ((pc = "collect" /\ collector_table # None)
        => /\ Len(collector_table.scopes) = 1
           /\ get_current_scope_level(collector_table) = 0)
    /\ ((pc = "check" /\ ~InsideRoutine)
        => /\ Len(symbol_table.scopes) = 1
           /\ get_current_scope_level(symbol_table) = 0)
    /\ (Analysed
        => /\ Len(symbol_table.scopes) = 1
           /\ get_current_scope_level(symbol_table) = 0
           /\ DOMAIN symbol_table.scopes[1] = ModuleKeys
           /\ symbol_table.scopes[1]
                  = CollectorModuleDeclarations(SymbolTable(builtins),
                                                root).scopes[1])

\* analyze() has returned for a module of three routines with parameters,
\* locals and an implicit variable; the table holds g, y, G, F, H and P
C28_Witness ==
    /\ Analysed
    /\ Len(root.procedures) = 1
    /\ AssignedKeys(root.functions[1]) # {}
    /\ DeclaredNames(root.procedures[1].body) # {}
    /\ Len(symbol_table.scopes) = 1
    /\ DOMAIN symbol_table.scopes[1] = {"g", "y", "f", "h", "p"}

-----------------------------------------------------------------------------
(* What pass 2 never visits *)

\* the default values of the parameters of the routines of module m
DefaultValues(m) ==
    UNION {{r.parameters[i].default_value : i \in DOMAIN r.parameters} :
              r \in Routines(m)} \ {None}

\* the nodes of module m outside the bodies of its routines: the
\* module-level statements with their expressions and targets, and the
\* default values of parameters
OutsideBodies(m) ==
    StatementsIn(m.statements)
    \cup ExpressionNodes(m.statements)
    \cup AssignmentTargets(m.statements)
    \cup UNION {NodesOf(e) : e \in DefaultValues(m)}

\* no diagnostic of the list is positioned at a node of m outside the bodies
NoneOutsideBodies(list, m) ==
    \A e \in Diagnostics(list) :
        \A n \in OutsideBodies(m) :
            <<e.line, e.column>> # <<n.line, n.column>>

\* C29: pass 2 visits the bodies of functions and procedures only.  A
\* module-level statement or a default value of a parameter is never
\* visited, so no diagnostic is positioned there, in the checker's list or
\* in a returned one, and a module-level assignment defines no variable:
\* its target enters no scope.
C29_OnlyRoutineBodiesChecked ==
    /\ pc = "check"
       => /\ \A i \in DOMAIN todo :
                 todo[i].op \in {"visit", "assign_target"}
                     => todo[i].node \notin OutsideBodies(root)
          /\ NoneOutsideBodies(checker_errors, root)
          /\ \A t \in AssignmentTargets(root.statements) :
                 Lower(t.name) \notin ModuleKeys
                     => Lower(t.name) \notin DOMAIN symbol_table.scopes[1]
    /\ \A i \in DOMAIN result.items :
           NoneOutsideBodies(result.items[i].errors, result.items[i].root)

\* the analysis of EveryNodeModule has returned: q, undefined in the default
\* value `q + a` and in the module-level `v = q;`, is in no diagnostic, and
\* the reference to v in P is reported although `v = q;` stands at module
\* level
C29_Witness ==
    /\ result.items # <<>>
    /\ result.items[1].root = EveryNodeModule
    /\ \A e \in Diagnostics(result.items[1].errors) : ~Mentions(e, "q")
    /\ \E e \in Diagnostics(result.items[1].errors) :
           /\ Mentions(e, "v")
           /\ e.line = 31
           /\ e.column = 1
    /\ Analysed
    /\ root = EveryNodeModule
    /\ lookup(symbol_table, "v") = None

-----------------------------------------------------------------------------
(* Annotations and preprocessor directives below module level *)

PreprocessorTypes ==
    {"PREPROCESSOR_IF", "PREPROCESSOR_ELSE", "PREPROCESSOR_ENDIF"}

\* C30: the parser skips a preprocessor directive and records an annotation
\* at module level only: there the token is consumed and parsing goes on,
\* the annotation kept as the current one; where a statement is expected in
\* the body of a function or procedure or in a nested block, the same token
\* makes parse() raise a ParserError, and nothing is skipped.
C30_DirectivesOnlyAtModuleLevel ==
    /\ [][(AtBlock /\ match(parser, PreprocessorTypes \cup {"ANNOTATION"}))
          => /\ pc' = "raised"
             /\ result'.type = "ParserError"
             /\ parser'.current = parser.current]_vars
    /\ [][(AtModule /\ match(parser, PreprocessorTypes))
          => /\ pc' = "parse"
             /\ parser'.current > parser.current
             /\ parser'.current_annotation = parser.current_annotation
             /\ todo' = todo]_vars
    /\ [][(AtModule /\ match(parser, {"ANNOTATION"}))
          => /\ pc' = "parse"
             /\ parser'.current > parser.current
             /\ parser'.current_annotation = Annotation(peek(parser, 0).value)
             /\ todo' = todo]_vars

\* parse() raised at the #-directive that follows `Togda` in a function
C30_Witness ==
    /\ pc = "raised"
    /\ parser # None
    /\ result.type = "ParserError"
    /\ parser.tokens[1].type = "KEYWORD_FUNCTION"
    /\ parser.current > 0
    /\ parser.tokens[parser.current].type = "KEYWORD_THEN"
    /\ peek(parser, 0).type = "PREPROCESSOR_IF"
    /\ result.token = peek(parser, 0)

=============================================================================
